---- MODULE Spec2Model ----
(***************************************************************************)
(* Edge gateway: authentication, session and request-admission engine.     *)
(*                                                                         *)
(* The gateway is modelled component by component.  Every component has    *)
(* its own specification over its own group of variables; the variables    *)
(* of the other components are held at their idle values:                  *)
(*                                                                         *)
(*   SpecRL    general rate limiter        (middleware.RateLimiter)        *)
(*   SpecCSRF  CSRF double-submit store    (middleware.CSRFProtection)     *)
(*   SpecOAuth OAuth state store, callback (auth.OAuthStateStore)          *)
(*   SpecAuth  login, bearer tokens, MFA   (handlers.Login, auth.Auth)     *)
(*   SpecSess  Redis session registry      (auth.SessionManager)           *)
(*   SpecUsers user creation               (handlers.Register, OAuth)      *)
(*   SpecHandlers login and session routes (handlers.Login, ListSessions)  *)
(*   SpecMfaLimit POST /auth/mfa/verify behind the general limiter         *)
(*   SpecStart start of the process        (main, config.Load)             *)
(*   SpecCreate the clock reads of         (SessionManager.CreateSession)  *)
(*   SpecChain the middleware chain of     (main, middleware.Recoverer)    *)
(*   SpecConsole the console's auth state  (AuthProvider)                  *)
(*   SpecSweep the sweeper and shutdown of (main, RateLimiter.cleanupLoop) *)
(*   SpecTouch UpdateLastActive            (SessionManager)                *)
(*   SpecList  ListUserSessions            (SessionManager)                *)
(*   SpecFind  find-or-create of           (handlers.OAuthCallback)        *)
(*   SpecOAuthFair SpecOAuth with the fairness of the runtime              *)
(*   SpecLogout logout and the denylist    (main, Auth.ValidateToken)      *)
(*   SpecCsrfAuth CSRF in front of auth    (CSRFProtection, Auth)          *)
(*   SpecCallback the checks of            (handlers.OAuthCallback)        *)
(*                                                                         *)
(* `now` is the wall clock (time.Now()) counted in ticks.  Durations of    *)
(* the code are given in ticks; the length of a tick is fixed per          *)
(* component by its duration definition (RLWindow ticks = 60 s, ...).      *)
(***************************************************************************)
EXTENDS Integers, Sequences, FiniteSets, TLC

VARIABLES
    now,          \* time.Now(), in ticks
    rl_limit,     \* RateLimiter.requestsPerMin
    rl_requests,  \* RateLimiter.requests: client key -> timestamps
    rl_log,       \* history: per client key, the limited requests and their outcome
    rl_last,      \* history: the response to the latest request
    cs_tokens,    \* CSRFProtection.tokens: token -> expiry
    cs_next,      \* the next value rand.Read yields in GenerateToken
    cs_issued,    \* history: token -> the time GenerateToken issued it
    cs_last,      \* history: the latest request and its response
    oa_states,    \* OAuthStateStore.states: state -> expiry
    oa_next,      \* the next value GenerateState yields
    oa_pc,        \* per goroutine: where it is in OAuthCallback, and its last answer
    oa_true,      \* history: state -> number of Validate calls that returned true
    oa_fatal,     \* the Go runtime has thrown "concurrent map writes"
    au_db,        \* the users table: id -> row
    au_minted,    \* history: the tokens minted so far, with the minting function
    au_mfa_ok,    \* history: <<user_id, code>> -> number of MFA verifies answered 200
    au_last,      \* history: the latest request and its response
    se_keys,      \* Redis: session:<sid> -> value and expiry of the key
    se_sets,      \* Redis: user_sessions:<uid> -> members and expiry of the set
    se_next,      \* the next value uuid.New() yields
    se_pc,        \* per client process: the registry call in flight and its locals
    se_hist,      \* history: who each sid was made for, which creates returned, which revokes completed
    se_last,      \* history: the registry call that returned in the latest step, and its result
    ur_unique,    \* the users table carries UNIQUE(username) and UNIQUE(email)
    ur_users,     \* the users table as Register and OAuthCallback fill it: id -> row
    ur_next,      \* the next value uuid.New() yields for a user
    ur_pc,        \* per goroutine: where it is in Register or OAuthCallback, and its answer
    hs_sessions,  \* Handler.sessions: "nil" without Redis, "redis" with a session manager
    hs_last,      \* history: the latest request to a session route and its response
    st_env,       \* the process environment main starts in
    st_cfg,       \* the *config.Config that config.Load returned
    st_sessions,  \* main's sessionManager: "nil" or "redis"
    st_pc,        \* where main is
    sc_ttl,       \* SessionManager.sessionTTL as NewSessionManager received it
    sc_pc,        \* CreateSession in flight: the Session struct as far as it is built
    sc_out,       \* the *Session the latest CreateSession returned
    ch_faulted,   \* history: some earlier request ended in a panic
    ch_last,      \* history: the latest request through main's chain and its outcome
    co_user,      \* AuthProvider: the user state
    co_token,     \* AuthProvider: the token state
    co_loading,   \* AuthProvider: the isLoading state
    co_session,   \* the gateway accepts the browser's cookies
    co_pc,        \* per callback of AuthProvider: the await it is suspended at
    co_last,      \* history: the callback that returned in the latest step
    sw_main,      \* where main is between ListenAndServe and its return
    sw_loop,      \* where the goroutine of RateLimiter.cleanupLoop is
    tc_pc,        \* UpdateLastActive in flight: its position and locals
    tc_last,      \* history: the UpdateLastActive that returned in the latest step
    tl_pc,        \* ListUserSessions in flight: its position and locals
    tl_last,      \* history: the latest ListUserSessions that returned
    lo_kv,        \* whether the gateway was started with a KVCache
    lo_presented  \* history: the access tokens presented to POST /auth/logout

rlVars == <<rl_limit, rl_requests, rl_log, rl_last>>
csVars == <<cs_tokens, cs_next, cs_issued, cs_last>>
oaVars == <<oa_states, oa_next, oa_pc, oa_true, oa_fatal>>
auVars == <<au_db, au_minted, au_mfa_ok, au_last>>
seVars == <<se_keys, se_sets, se_next, se_pc, se_hist, se_last>>
urVars == <<ur_unique, ur_users, ur_next, ur_pc>>
hsVars == <<hs_sessions, hs_last>>
stVars == <<st_env, st_cfg, st_sessions, st_pc>>
scVars == <<sc_ttl, sc_pc, sc_out>>
chVars == <<ch_faulted, ch_last>>
coVars == <<co_user, co_token, co_loading, co_session, co_pc, co_last>>
swVars == <<sw_main, sw_loop>>
tcVars == <<tc_pc, tc_last>>
tlVars == <<tl_pc, tl_last>>
loVars == <<lo_kv, lo_presented>>
lateVars == <<chVars, coVars, swVars, tcVars, tlVars, loVars>>
moreVars == <<urVars, hsVars, stVars, scVars, lateVars>>
vars == <<now, rlVars, csVars, oaVars, auVars, seVars, moreVars>>

\* what the actions of one component leave unchanged in the others
notRL == <<csVars, oaVars, auVars, seVars, moreVars>>
notCS == <<rlVars, oaVars, auVars, seVars, moreVars>>
notOA == <<rlVars, csVars, auVars, seVars, moreVars>>
notAU == <<rlVars, csVars, oaVars, seVars, moreVars>>
notSE == <<rlVars, csVars, oaVars, auVars, moreVars>>
coreVars == <<rlVars, csVars, oaVars, auVars, seVars>>
notUR == <<coreVars, hsVars, stVars, scVars, lateVars>>
notHS == <<rlVars, csVars, oaVars, urVars, stVars, scVars, lateVars>>
notST == <<coreVars, urVars, hsVars, scVars, lateVars>>
notSC == <<rlVars, csVars, oaVars, auVars, urVars, hsVars, stVars, lateVars>>
earlyVars == <<urVars, hsVars, stVars, scVars>>
notCH == <<csVars, oaVars, auVars, seVars, earlyVars, coVars, swVars, tcVars, tlVars, loVars>>
notCO == <<coreVars, earlyVars, chVars, swVars, tcVars, tlVars, loVars>>
notSW == <<csVars, oaVars, auVars, seVars, earlyVars, chVars, coVars, tcVars, tlVars, loVars>>
notTC == <<rlVars, csVars, oaVars, auVars, earlyVars, chVars, coVars, swVars, loVars>>
notTL == <<rlVars, csVars, oaVars, auVars, earlyVars, chVars, coVars, swVars, tcVars, loVars>>
notLO == <<rlVars, csVars, oaVars, seVars, earlyVars, chVars, coVars, swVars, tcVars, tlVars>>

(***************************************************************************)
(* Bounds of the model.                                                    *)
(***************************************************************************)
MaxTime == 3        \* the clock stops here
MaxLimit == 2       \* RATE_LIMIT_RPM ranges over 1..MaxLimit
MaxReq == 4         \* limited requests logged per client key
MaxTokens == 2      \* CSRF tokens GenerateToken issues
MaxStates == 2      \* OAuth states GenerateState issues
MaxMinted == 2      \* bearer tokens minted (two per successful login)
MaxSess == 2        \* sessions CreateSession makes
MaxUsers == 3       \* rows Register and OAuthCallback insert
MaxTTL == 2         \* the largest sessionTTL configured, in ticks
MaxMfaReq == 6      \* requests to POST /auth/mfa/verify, and the largest RATE_LIMIT_RPM tried with them

(***************************************************************************)
(* Helpers.                                                                *)
(***************************************************************************)
MapGet(m, k, default) == IF k \in DOMAIN m THEN m[k] ELSE default

MapPut(m, k, v) == [x \in DOMAIN m \cup {k} |-> IF x = k THEN v ELSE m[x]]

MapDel(m, k) == [x \in DOMAIN m \ {k} |-> m[x]]

Range(f) == {f[x] : x \in DOMAIN f}

Tick ==
    /\ now < MaxTime
    /\ now' = now + 1
    /\ UNCHANGED <<rlVars, csVars, oaVars, auVars, seVars, moreVars>>

(***************************************************************************)
(* Idle values of the components a specification does not exercise.        *)
(***************************************************************************)
RLIdle ==
    /\ rl_limit = 1
    /\ rl_requests = <<>>
    /\ rl_log = <<>>
    /\ rl_last = [kind |-> "none"]

CSIdle ==
    /\ cs_tokens = <<>>
    /\ cs_next = 1
    /\ cs_issued = <<>>
    /\ cs_last = [kind |-> "none"]

OAIdle ==
    /\ oa_states = <<>>
    /\ oa_next = 1
    /\ oa_pc = <<>>
    /\ oa_true = <<>>
    /\ oa_fatal = FALSE

URIdle ==
    /\ ur_unique = TRUE
    /\ ur_users = <<>>
    /\ ur_next = 1
    /\ ur_pc = <<>>

HSIdle ==
    /\ hs_sessions = "nil"
    /\ hs_last = [op |-> "none"]

STIdle ==
    /\ st_env = <<>>
    /\ st_cfg = <<>>
    /\ st_sessions = "nil"
    /\ st_pc = "listening"

SCIdle ==
    /\ sc_ttl = 0
    /\ sc_pc = [at |-> "idle"]
    /\ sc_out = [nil |-> TRUE]

CHIdle ==
    /\ ch_faulted = FALSE
    /\ ch_last = [op |-> "none"]

COIdle ==
    /\ co_user = "null"
    /\ co_token = "null"
    /\ co_loading = FALSE
    /\ co_session = FALSE
    /\ co_pc = <<>>
    /\ co_last = [op |-> "none"]

SWIdle ==
    /\ sw_main = "listening"
    /\ sw_loop = "select"

TCIdle ==
    /\ tc_pc = [at |-> "idle"]
    /\ tc_last = [op |-> "none"]
    /\ tl_pc = [at |-> "idle"]
    /\ tl_last = [op |-> "none"]

LOIdle ==
    /\ lo_kv = FALSE
    /\ lo_presented = {}

LateIdle == CHIdle /\ COIdle /\ SWIdle /\ TCIdle /\ LOIdle

EarlyIdle == URIdle /\ HSIdle /\ STIdle /\ SCIdle

MoreIdle == EarlyIdle /\ LateIdle

AUIdle ==
    /\ au_db = <<>>
    /\ au_minted = {}
    /\ au_mfa_ok = <<>>
    /\ au_last = [op |-> "none"]

SEIdle ==
    /\ se_keys = <<>>
    /\ se_sets = <<>>
    /\ se_next = 1
    /\ se_pc = <<>>
    /\ se_hist = <<>>
    /\ se_last = [op |-> "none"]

(***************************************************************************)
(* General rate limiter.                                                   *)
(***************************************************************************)
RLWindow == 2       \* time.Minute, in ticks (one tick = 30 s)

Addrs == {"10.0.0.1", "10.0.0.2"}

Paths == {"/health", "/metrics", "/auth/login"}

\* t.After(cutoff)
AfterOrEqual(t, cutoff) == t >= cutoff

After(t, cutoff) == t > cutoff

\* the in-place filter `filtered := reqs[:0]; for ... if t.After(cutoff) ...`
RecentOnly(reqs, cutoff) == SelectSeq(reqs, LAMBDA t : After(t, cutoff))

\* clientIP: X-Forwarded-For when present, else RemoteAddr
ClientKey(remoteAddr, forwarded) == IF forwarded # "" THEN forwarded ELSE remoteAddr

RLBypassedHealthOnly(path) == path = "/health"

\* `r.URL.Path == "/health" || r.URL.Path == "/metrics"`
RLBypassed(path) == path = "/health" \/ path = "/metrics"

InitRL ==
    /\ now = 0
    /\ rl_limit \in 1..MaxLimit
    /\ rl_requests = <<>>
    /\ rl_log = [k \in Addrs |-> <<>>]
    /\ rl_last = [kind |-> "none"]
    /\ CSIdle
    /\ OAIdle
    /\ AUIdle
    /\ SEIdle
    /\ MoreIdle

\* RateLimiter.Middleware, on a path that skips the limiter
RLRequestBypass ==
    \E remoteAddr \in Addrs, forwarded \in Addrs \cup {""}, path \in Paths :
        /\ RLBypassed(path)
        /\ rl_last' = [kind |-> "bypass", status |-> 200, retryAfter |-> 0,
                       forwarded |-> TRUE, code |-> "", path |-> path]
        /\ UNCHANGED <<now, rl_limit, rl_requests, rl_log, notRL>>

\* a limiter that keeps one bucket for all clients
RLRequestSharedBucket ==
    \E remoteAddr \in Addrs, forwarded \in Addrs \cup {""}, path \in Paths :
        LET clientIP == ClientKey(remoteAddr, forwarded)
            cutoff == now - RLWindow
            filtered == RecentOnly(MapGet(rl_requests, "", <<>>), cutoff)
            admitted == ~(Len(filtered) >= rl_limit)
        IN  /\ ~RLBypassed(path)
            /\ Len(rl_log[clientIP]) < MaxReq
            /\ rl_requests' = MapPut(rl_requests, "",
                                     IF admitted THEN Append(filtered, now) ELSE filtered)
            /\ rl_log' = [rl_log EXCEPT
                             ![clientIP] = Append(@, [t |-> now, ok |-> admitted])]
            /\ rl_last' = [kind |-> "limited", status |-> IF admitted THEN 200 ELSE 429,
                           retryAfter |-> IF admitted THEN 0 ELSE 60,
                           forwarded |-> admitted,
                           code |-> IF admitted THEN "" ELSE "rate_limit_exceeded",
                           path |-> path]
            /\ UNCHANGED <<now, rl_limit, notRL>>

\* RateLimiter.Middleware, on a limited path (under rl.mu)
RLRequest ==
    \E remoteAddr \in Addrs, forwarded \in Addrs \cup {""}, path \in Paths :
        LET clientIP == ClientKey(remoteAddr, forwarded)
            cutoff == now - RLWindow
            filtered == RecentOnly(MapGet(rl_requests, clientIP, <<>>), cutoff)
            admitted == ~(Len(filtered) >= rl_limit)
        IN  /\ ~RLBypassed(path)
            /\ Len(rl_log[clientIP]) < MaxReq
            /\ rl_requests' = MapPut(rl_requests, clientIP,
                                     IF admitted THEN Append(filtered, now) ELSE filtered)
            /\ rl_log' = [rl_log EXCEPT
                             ![clientIP] = Append(@, [t |-> now, ok |-> admitted])]
            /\ rl_last' = IF admitted
                          THEN [kind |-> "limited", status |-> 200, retryAfter |-> 0,
                                forwarded |-> TRUE, code |-> "", path |-> path]
                          ELSE [kind |-> "limited", status |-> 429, retryAfter |-> 60,
                                forwarded |-> FALSE, code |-> "rate_limit_exceeded",
                                path |-> path]
            /\ UNCHANGED <<now, rl_limit, notRL>>

\* a cleanup whose cutoff is half the window
RLSweepEager ==
    LET cutoff == now - (RLWindow - 1)
        kept == {ip \in DOMAIN rl_requests : Len(RecentOnly(rl_requests[ip], cutoff)) # 0}
    IN  /\ rl_requests' = [ip \in kept |-> RecentOnly(rl_requests[ip], cutoff)]
        /\ rl_requests' # rl_requests
        /\ UNCHANGED <<now, rl_limit, rl_log, rl_last, notRL>>

\* RateLimiter.cleanup, run by cleanupLoop on every tick of its ticker
RLSweep ==
    LET cutoff == now - RLWindow
        kept == {ip \in DOMAIN rl_requests : Len(RecentOnly(rl_requests[ip], cutoff)) # 0}
    IN  /\ rl_requests' = [ip \in kept |-> RecentOnly(rl_requests[ip], cutoff)]
        /\ rl_requests' # rl_requests
        /\ UNCHANGED <<now, rl_limit, rl_log, rl_last, notRL>>

NextRL == RLRequest \/ RLRequestBypass \/ RLSweep \/ Tick

SpecRL == InitRL /\ [][NextRL]_vars

\* C1: a client key that issues N+1 limited requests within the 60 s window
\* has the first N admitted and the (N+1)-th rejected with 429, and the first
\* request it issues once 60 s have passed since the first one is admitted.
RLWithin(L, i) == L[i].t - L[1].t < RLWindow

RateLimitWindow ==
    \A k \in Addrs :
        LET L == rl_log[k]
            N == rl_limit
        IN  /\ \A i \in 1..Len(L) : (i <= N /\ RLWithin(L, i)) => L[i].ok
            /\ (Len(L) >= N + 1 /\ RLWithin(L, N + 1)) => ~L[N + 1].ok
            /\ \A j \in 1..Len(L) :
                   ( /\ j > N + 1
                     /\ RLWithin(L, N + 1)
                     /\ ~RLWithin(L, j)
                     /\ \A i \in 1..(j - 1) : RLWithin(L, i) ) => L[j].ok

RateLimitWindowWitness ==
    \E k \in Addrs :
        LET L == rl_log[k]
            N == rl_limit
        IN  /\ N = 2
            /\ Len(L) >= N + 2
            /\ RLWithin(L, N + 1)
            /\ ~L[N + 1].ok
            /\ ~RLWithin(L, N + 2)
            /\ L[N + 2].ok
            /\ rl_last.status = 200

(***************************************************************************)
(* CSRF double-submit protection.                                          *)
(*                                                                         *)
(* Token values are numbers: 1..MaxTokens are the values GenerateToken     *)
(* draws, MaxTokens + 1 is a value the server never issues (a forged       *)
(* token).  A header value of 0 is the empty / absent X-CSRF-Token header, *)
(* a cookie value of -1 is "no csrf_token cookie in the request".          *)
(***************************************************************************)
CSRFLifetime == 2   \* DefaultCSRFConfig().TokenLifetime = time.Hour, in ticks

Methods == {"GET", "HEAD", "OPTIONS", "POST", "PUT", "DELETE", "PATCH"}

CsrfValues == 1..(MaxTokens + 1)

NoHeader == 0

NoCookie == 0 - 1

SafeMethod(method) == method = "GET" \/ method = "HEAD" \/ method = "OPTIONS"

\* CSRFProtection.ValidateToken
CSRFValidateTokenNoExpiry(token) == token \in DOMAIN cs_tokens

CSRFValidateToken(token) ==
    IF token \notin DOMAIN cs_tokens THEN FALSE
    ELSE IF now > cs_tokens[token] THEN FALSE
    ELSE TRUE

CSResponse(method, auth, header, cookie, status, next, setCookie) ==
    [kind |-> "req", method |-> method, auth |-> auth, header |-> header,
     cookie |-> cookie, at |-> now, status |-> status, next |-> next,
     setCookie |-> setCookie]

\* CSRFProtection.Middleware: request with an Authorization header
CSAuthorized ==
    \E method \in Methods, header \in CsrfValues \cup {NoHeader},
       cookie \in CsrfValues \cup {NoCookie} :
        /\ cs_last' = CSResponse(method, TRUE, header, cookie, 200, TRUE, NoCookie)
        /\ UNCHANGED <<now, cs_tokens, cs_next, cs_issued, notCS>>

\* CSRFProtection.Middleware: safe method, cookie already present
CSSafeWithCookie ==
    \E method \in Methods, header \in CsrfValues \cup {NoHeader}, cookie \in CsrfValues :
        /\ SafeMethod(method)
        /\ cs_last' = CSResponse(method, FALSE, header, cookie, 200, TRUE, NoCookie)
        /\ UNCHANGED <<now, cs_tokens, cs_next, cs_issued, notCS>>

\* CSRFProtection.Middleware: safe method, no cookie: GenerateToken and set it
CSSafeIssue ==
    \E method \in Methods, header \in CsrfValues \cup {NoHeader} :
        /\ SafeMethod(method)
        /\ cs_next <= MaxTokens
        /\ cs_tokens' = MapPut(cs_tokens, cs_next, now + CSRFLifetime)
        /\ cs_issued' = MapPut(cs_issued, cs_next, now)
        /\ cs_next' = cs_next + 1
        /\ cs_last' = CSResponse(method, FALSE, header, NoCookie, 200, TRUE, cs_next)
        /\ UNCHANGED <<now, notCS>>

\* CSRFProtection.Middleware: state-changing method
CSUnsafe ==
    \E method \in Methods, header \in CsrfValues \cup {NoHeader},
       cookie \in CsrfValues \cup {NoCookie} :
        /\ ~SafeMethod(method)
        /\ cs_last' =
             IF cookie = NoCookie \/ header = NoHeader
             THEN CSResponse(method, FALSE, header, cookie, 403, FALSE, NoCookie)
             ELSE IF header # cookie \/ ~CSRFValidateToken(header)
             THEN CSResponse(method, FALSE, header, cookie, 403, FALSE, NoCookie)
             ELSE CSResponse(method, FALSE, header, cookie, 200, TRUE, NoCookie)
        /\ UNCHANGED <<now, cs_tokens, cs_next, cs_issued, notCS>>

\* CSRFProtection.cleanupLoop, one firing of its ticker
CSSweep ==
    /\ \E t \in DOMAIN cs_tokens : now > cs_tokens[t]
    /\ cs_tokens' = [t \in {x \in DOMAIN cs_tokens : ~(now > cs_tokens[x])} |-> cs_tokens[t]]
    /\ UNCHANGED <<now, cs_next, cs_issued, cs_last, notCS>>

InitCSRF == now = 0 /\ CSIdle /\ RLIdle /\ OAIdle /\ AUIdle /\ SEIdle /\ MoreIdle

NextCSRF == CSAuthorized \/ CSSafeWithCookie \/ CSSafeIssue \/ CSUnsafe \/ CSSweep \/ Tick

SpecCSRF == InitCSRF /\ [][NextCSRF]_vars

CSUnsafeNoAuth == cs_last.kind = "req" /\ ~SafeMethod(cs_last.method) /\ ~cs_last.auth

\* the double-submit condition, with the token issued at most `age` ticks ago
\* (strictly less than `age` when `strict`)
CSEchoed(age, strict) ==
    /\ cs_last.header # NoHeader
    /\ cs_last.cookie = cs_last.header
    /\ cs_last.header \in DOMAIN cs_issued
    /\ IF strict THEN cs_last.at - cs_issued[cs_last.header] < age
                 ELSE cs_last.at - cs_issued[cs_last.header] <= age

\* C10 (as amended): an unsafe-method request without Authorization header
\* reaches the next handler exactly when X-CSRF-Token is non-empty, equals the
\* csrf_token cookie and names a token the server issued at most 1 h ago; every
\* other such request, a POST without the header among them, is refused with 403.
CsrfDoubleSubmit ==
    CSUnsafeNoAuth =>
        /\ cs_last.next <=> CSEchoed(CSRFLifetime, FALSE)
        /\ ~cs_last.next => cs_last.status = 403
        /\ cs_last.header = NoHeader => cs_last.status = 403

CsrfDoubleSubmitWitness ==
    /\ CSUnsafeNoAuth
    /\ cs_last.method = "POST"
    /\ cs_last.next
    /\ cs_last.at > cs_issued[cs_last.header]

\* C10 (as claimed): ... names a token the server issued less than 1 h ago.
CsrfDoubleSubmitStrict ==
    (CSUnsafeNoAuth /\ cs_last.next) => CSEchoed(CSRFLifetime, TRUE)

(***************************************************************************)
(* OAuth state store and the state check of the callback.                  *)
(*                                                                         *)
(* net/http serves every request on its own goroutine and OAuthStateStore  *)
(* holds a plain map with no lock, so Validate's map read and its delete   *)
(* are separate steps of a goroutine.  Two goroutines writing the map at   *)
(* once is a data race: the writes either interleave, or the Go runtime    *)
(* throws "concurrent map writes" and the process dies.                    *)
(*                                                                         *)
(* States are numbers: 1..MaxStates are the values GenerateState draws, 0  *)
(* is a state the server never stored.                                     *)
(***************************************************************************)
OAuthStateTTL == 2  \* 10 * time.Minute, in ticks (one tick = 5 min)

Goroutines == {"g1", "g2"}

StateValues == 0..MaxStates

InitOAuth ==
    /\ now = 0
    /\ oa_states = <<>>
    /\ oa_next = 1
    /\ oa_pc = [g \in Goroutines |-> [at |-> "idle", last |-> "none"]]
    /\ oa_true = [s \in StateValues |-> 0]
    /\ oa_fatal = FALSE
    /\ RLIdle
    /\ CSIdle
    /\ AUIdle
    /\ SEIdle
    /\ MoreIdle

\* time.Now().Before(exp)
Before(t, exp) == t < exp

\* Handler.OAuthStart: GenerateState, OAuthStateStore.Store, redirect
OAuthStart ==
    \E g \in Goroutines :
        /\ ~oa_fatal
        /\ oa_pc[g].at = "idle"
        /\ oa_next <= MaxStates
        /\ oa_states' = MapPut(oa_states, oa_next, now + OAuthStateTTL)
        /\ oa_next' = oa_next + 1
        /\ oa_pc' = [oa_pc EXCEPT ![g] = [at |-> "idle", last |-> "redirect"]]
        /\ UNCHANGED <<now, oa_true, oa_fatal, notOA>>

\* Handler.OAuthCallback, OAuthStateStore.Validate: `exp, ok := s.states[state]`
OAuthValidateLookup ==
    \E g \in Goroutines, state \in StateValues :
        /\ ~oa_fatal
        /\ oa_pc[g].at = "idle"
        /\ oa_pc' = [oa_pc EXCEPT ![g] =
                        IF state \in DOMAIN oa_states
                        THEN [at |-> "found", last |-> "none", state |-> state,
                              exp |-> oa_states[state]]
                        ELSE [at |-> "idle", last |-> "invalid_state"]]
        /\ UNCHANGED <<now, oa_states, oa_next, oa_true, oa_fatal, notOA>>

\* OAuthStateStore.Validate: `delete(s.states, state); return time.Now().Before(exp)`
OAuthValidateDelete ==
    \E g \in Goroutines :
        /\ ~oa_fatal
        /\ oa_pc[g].at = "found"
        /\ LET state == oa_pc[g].state
               valid == Before(now, oa_pc[g].exp)
           IN  /\ oa_states' = MapDel(oa_states, state)
               /\ oa_true' = [oa_true EXCEPT ![state] = IF valid THEN @ + 1 ELSE @]
               /\ oa_pc' = [oa_pc EXCEPT ![g] =
                               [at |-> "idle",
                                last |-> IF valid THEN "state_ok" ELSE "invalid_state"]]
        /\ UNCHANGED <<now, oa_next, oa_fatal, notOA>>

\* two goroutines about to write the map at once: the runtime may abort the process
OAuthMapFault ==
    /\ ~oa_fatal
    /\ \A g \in Goroutines : oa_pc[g].at = "found"
    /\ oa_fatal' = TRUE
    /\ UNCHANGED <<now, oa_states, oa_next, oa_pc, oa_true, notOA>>

NextOAuth == OAuthStart \/ OAuthValidateLookup \/ OAuthValidateDelete \/ OAuthMapFault \/ Tick

SpecOAuth == InitOAuth /\ [][NextOAuth]_vars

\* C2: OAuth state is single-use: of all the callback validations of a stored
\* state, in any order and interleaving, at most one returns true, and a state
\* that was never stored is never validated.
OAuthStateSingleUse ==
    \A s \in StateValues :
        /\ oa_true[s] <= 1
        /\ s >= oa_next => oa_true[s] = 0
        /\ s = 0 => oa_true[s] = 0

(***************************************************************************)
(* Password login, bearer tokens, the auth middleware and MFA.             *)
(*                                                                         *)
(* The users table belongs to the relational store, which the gateway      *)
(* shares with the worker API: its rows carry mfa_enabled, mfa_secret and  *)
(* backup_codes whatever the gateway itself writes.  A bcrypt hash is the  *)
(* record [bcrypt |-> password]; a signed token is the record of its       *)
(* claims with the algorithm and the key it was signed with.  One tick is  *)
(* one TOTP period (30 s).                                                 *)
(***************************************************************************)
JWTExpire == 2          \* cfg.JWTExpireDuration(), in ticks

JWTRefreshExpire == 3   \* cfg.JWTRefreshExpireDuration(), in ticks

JWTSecretKey == "secret"

Emails == {"a@x.io", "b@x.io", "nobody@x.io"}

Passwords == {"Pw-A1", "Pw-B2", "wrong"}

TotpCodes == <<"000000", "111111", "222222", "333333">>

BackupPlain == {"AAAA-AAAA", "BBBB-BBBB"}

Codes == {TotpCodes[i] : i \in 1..Len(TotpCodes)} \cup BackupPlain

NoToken == [none |-> TRUE]

NilUser == [nil |-> TRUE]

\* auth.HashPassword (bcrypt.GenerateFromPassword)
HashPassword(password) == [bcrypt |-> password]

\* auth.CheckPassword (bcrypt.CompareHashAndPassword)
CheckPassword(password, hash) == "bcrypt" \in DOMAIN hash /\ hash.bcrypt = password

\* the fake bcrypt hash of Handler.Login
FakeHash == [fake |-> "$2a$10$XXXX"]

\* auth.HashBackupCode
HashBackupCode(code) == HashPassword(code)

\* auth.ValidateBackupCode: index of the first stored hash the code matches, or -1
ValidateBackupCode(code, hashedCodes) ==
    LET hits == {i \in 1..Len(hashedCodes) : CheckPassword(code, hashedCodes[i])}
    IN  IF hits = {} THEN 0 - 1
        ELSE (CHOOSE i \in hits : \A j \in hits : i <= j) - 1

\* the RFC 6238 code of a secret for a time step
TOTPCode(secret, counter) == TotpCodes[((secret + counter + 1) % Len(TotpCodes)) + 1]

\* auth.ValidateTOTP: totp.Validate, current step and one step either side
ValidateTOTP(secret, code) ==
    \E d \in {0 - 1, 0, 1} : TOTPCode(secret, now + d) = code

AuthStart ==
    /\ \E active \in BOOLEAN :
         au_db = [u \in {"u1", "u2"} |->
                    IF u = "u1"
                    THEN [id |-> "u1", username |-> "alice", email |-> "a@x.io",
                          password_hash |-> HashPassword("Pw-A1"), active |-> active,
                          mfa_enabled |-> FALSE, mfa_secret |-> 0, backup_codes |-> <<>>]
                    ELSE [id |-> "u2", username |-> "bob", email |-> "b@x.io",
                          password_hash |-> HashPassword("Pw-B2"), active |-> TRUE,
                          mfa_enabled |-> TRUE, mfa_secret |-> 1,
                          backup_codes |-> <<HashBackupCode("AAAA-AAAA"),
                                             HashBackupCode("BBBB-BBBB")>>]]
    /\ au_minted = {}
    /\ au_mfa_ok = [p \in {"u2"} \X BackupPlain |-> 0]
    /\ au_last = [op |-> "none"]

InitAuth ==
    /\ now = 0
    /\ AuthStart
    /\ RLIdle
    /\ CSIdle
    /\ OAIdle
    /\ SEIdle
    /\ MoreIdle

\* the models.User a user query scans: the SELECT list has no mfa_* column
ScanUser(row) ==
    [id |-> row.id, username |-> row.username, email |-> row.email,
     password_hash |-> row.password_hash, active |-> row.active, mfa_enabled |-> FALSE]

\* DB.GetUserByEmail
GetUserByEmail(email, dbDown) ==
    LET ids == {u \in DOMAIN au_db : au_db[u].email = email}
    IN  IF dbDown \/ ids = {} THEN [user |-> NilUser, err |-> TRUE]
        ELSE [user |-> ScanUser(au_db[CHOOSE u \in ids : TRUE]), err |-> FALSE]

\* DB.GetUserByID
GetUserByID(id) ==
    IF id \in DOMAIN au_db THEN [user |-> ScanUser(au_db[id]), err |-> FALSE]
    ELSE [user |-> NilUser, err |-> TRUE]

\* Auth.CreateAccessToken
CreateAccessToken(user) ==
    [user_id |-> user.id, sub |-> user.email, iat |-> now, exp |-> now + JWTExpire,
     alg |-> "HS256", key |-> JWTSecretKey]

\* Auth.CreateRefreshToken
CreateRefreshToken(user) ==
    [user_id |-> user.id, sub |-> user.email, iat |-> now, exp |-> now + JWTRefreshExpire,
     alg |-> "HS256", key |-> JWTSecretKey]

ValidateTokenNoExpiry(token) ==
    /\ token.alg \in {"HS256", "HS384", "HS512"}
    /\ token.key = JWTSecretKey

\* Auth.ValidateToken: HMAC family only, signature, expiry (jwt.ParseWithClaims)
ValidateToken(token) ==
    /\ token.alg \in {"HS256", "HS384", "HS512"}
    /\ token.key = JWTSecretKey
    /\ now < token.exp

\* what a client can present: the minted tokens and forgeries made from them
Presentable ==
    LET minted == {m.token : m \in au_minted}
    IN  minted \cup {[t EXCEPT !.key = "attacker"] : t \in minted}
               \cup {[t EXCEPT !.alg = "none", !.key = ""] : t \in minted}

\* Auth.Middleware: the user it puts in the request context, or NilUser
ContextUser(scheme, headerToken, cookieToken) ==
    LET fromHeader == IF scheme = "Bearer" THEN headerToken ELSE NoToken
        tokenString == IF fromHeader # NoToken THEN fromHeader ELSE cookieToken
    IN  IF tokenString = NoToken THEN [token |-> NoToken, user |-> NilUser]
        ELSE IF ~ValidateToken(tokenString) THEN [token |-> tokenString, user |-> NilUser]
        ELSE [token |-> tokenString, user |-> GetUserByID(tokenString.user_id).user]

\* Handler.Login
Login ==
    \E email \in Emails, password \in Passwords, wellFormed \in BOOLEAN, dbDown \in BOOLEAN :
        LET found == GetUserByEmail(email, dbDown)
            user == found.user
            passwordHash == IF user # NilUser THEN user.password_hash ELSE FakeHash
            \* `err != nil || !auth.CheckPassword(...)`: the right operand is
            \* evaluated only when err == nil
            bcryptRuns == IF found.err THEN 0 ELSE 1
            rejected == found.err \/ ~CheckPassword(password, passwordHash)
            facts == [op |-> "login", email |-> email, wellFormed |-> wellFormed,
                      found |-> ~found.err,
                      correct |-> \E u \in DOMAIN au_db :
                                      /\ au_db[u].email = email
                                      /\ CheckPassword(password, au_db[u].password_hash)]
        IN  IF ~wellFormed
            THEN /\ au_last' = [facts EXCEPT !.found = FALSE] @@
                               [status |-> 400, body |-> "validation_error",
                                bcrypt |-> 0, cookie |-> NoToken]
                 /\ UNCHANGED <<now, au_db, au_minted, au_mfa_ok, notAU>>
            ELSE IF rejected
            THEN /\ au_last' = facts @@ [status |-> 401, body |-> "invalid_credentials",
                                         bcrypt |-> bcryptRuns, cookie |-> NoToken]
                 /\ UNCHANGED <<now, au_db, au_minted, au_mfa_ok, notAU>>
            ELSE /\ Cardinality(au_minted) + 2 <= MaxMinted
                 /\ au_minted' = au_minted \cup
                        {[by |-> "access", token |-> CreateAccessToken(user)],
                         [by |-> "refresh", token |-> CreateRefreshToken(user)]}
                 /\ au_last' = facts @@ [status |-> 200, body |-> "tokens",
                                         bcrypt |-> bcryptRuns,
                                         cookie |-> CreateAccessToken(user)]
                 /\ UNCHANGED <<now, au_db, au_mfa_ok, notAU>>

\* Auth.RequireAuth: the status of a route wrapped in it (200: the handler ran)
RequireAuth(user) == IF user = NilUser THEN 401 ELSE 200

\* Auth.Middleware in front of a route
AuthMiddleware ==
    \E scheme \in {"none", "Bearer", "Basic"},
       headerToken \in Presentable \cup {NoToken},
       cookieToken \in Presentable \cup {NoToken} :
        LET ctx == ContextUser(scheme, headerToken, cookieToken)
        IN  /\ au_last' = [op |-> "request", token |-> ctx.token, user |-> ctx.user,
                           by |-> {m.by : m \in {x \in au_minted : x.token = ctx.token}},
                           at |-> now, required |-> RequireAuth(ctx.user),
                           valid |-> ctx.token # NoToken /\ ValidateToken(ctx.token)]
            /\ UNCHANGED <<now, au_db, au_minted, au_mfa_ok, notAU>>

\* Handler.MFAEnable behind Auth.Middleware and Auth.RequireAuth
MFAEnable ==
    \E cookieToken \in Presentable \cup {NoToken}, secret \in 1..2, code \in Codes :
        LET user == ContextUser("none", NoToken, cookieToken).user
        IN  /\ au_last' =
                 IF user = NilUser
                 THEN [op |-> "mfa_enable", status |-> 401, body |-> "unauthorized"]
                 ELSE IF ~ValidateTOTP(secret, code)
                 THEN [op |-> "mfa_enable", status |-> 400, body |-> "invalid_code",
                       uid |-> user.id, secret |-> secret]
                 ELSE [op |-> "mfa_enable", status |-> 200, body |-> "enabled",
                       uid |-> user.id, secret |-> secret]
            /\ UNCHANGED <<now, au_db, au_minted, au_mfa_ok, notAU>>

\* Handler.MFAVerify
MFAVerify ==
    \E user_id \in {"u1", "u2", "u9"}, code \in Codes, wellFormed \in BOOLEAN :
        /\ au_last' =
             IF ~wellFormed
             THEN [op |-> "mfa_verify", status |-> 400, verified |-> FALSE,
                   user_id |-> user_id, code |-> code, tokens |-> FALSE]
             ELSE [op |-> "mfa_verify", status |-> 200, verified |-> TRUE,
                   user_id |-> user_id, code |-> code, tokens |-> FALSE]
        /\ au_mfa_ok' =
             IF wellFormed /\ <<user_id, code>> \in DOMAIN au_mfa_ok
             THEN [au_mfa_ok EXCEPT ![<<user_id, code>>] = IF @ < 2 THEN @ + 1 ELSE @]
             ELSE au_mfa_ok
        /\ UNCHANGED <<now, au_db, au_minted, notAU>>

NextAuth == Login \/ AuthMiddleware \/ MFAEnable \/ MFAVerify \/ Tick

SpecAuth == InitAuth /\ [][NextAuth]_vars

\* C3: every Login request whose payload passes validation runs a bcrypt
\* password verification (stored hash or fake hash) before it answers; a
\* user-not-found 401 without a verification does not happen.
LoginAlwaysVerifiesPassword ==
    (au_last.op = "login" /\ au_last.wellFormed) => au_last.bcrypt >= 1

\* C4: a refresh token presented where an access token is required (bearer
\* header or access_token cookie at the auth middleware) never yields an
\* authenticated identity.
RefreshTokenNotAccepted ==
    (au_last.op = "request" /\ au_last.by = {"refresh"}) => au_last.user = NilUser

\* C5: a Login with the correct password of a user with MFA enabled answers
\* mfa_required and sets no access_token cookie.
MfaLoginGate ==
    ( /\ au_last.op = "login"
      /\ au_last.wellFormed
      /\ au_last.found
      /\ au_last.correct
      /\ \E u \in DOMAIN au_db : au_db[u].email = au_last.email /\ au_db[u].mfa_enabled )
    => (au_last.body = "mfa_required" /\ au_last.cookie = NoToken)

\* C6: MFA verify answers success only for a code that is a valid TOTP code of
\* the named user's stored secret or matches one of that user's backup codes.
MfaVerifyChecksCode ==
    (au_last.op = "mfa_verify" /\ au_last.status = 200) =>
        /\ au_last.user_id \in DOMAIN au_db
        /\ au_db[au_last.user_id].mfa_enabled
        /\ \/ ValidateTOTP(au_db[au_last.user_id].mfa_secret, au_last.code)
           \/ ValidateBackupCode(au_last.code, au_db[au_last.user_id].backup_codes) >= 0

\* C7: a backup code is accepted by MFA verify at most once.
BackupCodeSingleUse ==
    \A p \in DOMAIN au_mfa_ok : au_mfa_ok[p] <= 1

(***************************************************************************)
(* Redis session registry (auth.SessionManager).                           *)
(*                                                                         *)
(* Two key shapes: session:<sid> holds the session with the expiry of the  *)
(* key, user_sessions:<uid> holds a set of sids with the expiry of the     *)
(* set.  A key whose expiry has passed does not exist.  Every Redis        *)
(* command is one step.  A go-redis Pipeline sends its commands in one     *)
(* batch without MULTI/EXEC: the server runs them in the order queued,     *)
(* and commands of other clients may run between them.  The client         *)
(* processes call CreateSession, GetSession, ListUserSessions,             *)
(* RevokeSession and RevokeAllSessions concurrently.                       *)
(***************************************************************************)
SessionTTL == 2     \* SessionManager.sessionTTL, in ticks

Procs == {"p1", "p2"}

UIDs == {"u1", "u2"}

SIDs == 1..MaxSess

NoExpiry == 0 - 1

NilSession == [nil |-> TRUE]

KeyLive(keys, sid) ==
    sid \in DOMAIN keys /\ (keys[sid].exp = NoExpiry \/ now < keys[sid].exp)

SetLive(sets, uid) ==
    uid \in DOMAIN sets /\ (sets[uid].exp = NoExpiry \/ now < sets[uid].exp)

\* SET key value EX ttl
RedisSet(keys, sid, value, ttl) == MapPut(keys, sid, [val |-> value, exp |-> now + ttl])

\* DEL key
RedisDel(keys, sid) == MapDel(keys, sid)

\* SMEMBERS key
SMembers(sets, uid) == IF SetLive(sets, uid) THEN sets[uid].members ELSE {}

\* SADD key member: a set that does not exist is created without expiry
RedisSAdd(sets, uid, sid) ==
    IF SetLive(sets, uid)
    THEN [sets EXCEPT ![uid].members = @ \cup {sid}]
    ELSE MapPut(sets, uid, [members |-> {sid}, exp |-> NoExpiry])

\* EXPIRE key ttl
RedisExpire(sets, uid, ttl) ==
    IF SetLive(sets, uid) THEN [sets EXCEPT ![uid].exp = now + ttl] ELSE sets

\* SREM key member: a set left empty is removed
RedisSRem(sets, uid, sid) ==
    IF ~SetLive(sets, uid) \/ sets[uid].members \ {sid} = {}
    THEN MapDel(sets, uid)
    ELSE [sets EXCEPT ![uid].members = @ \ {sid}]

\* SessionManager.GetSession: GET session:<sid>
GetSession(keys, sid) == IF KeyLive(keys, sid) THEN keys[sid].val ELSE NilSession

\* what SessionManager.ListUserSessions returns when nothing runs beside it
ListResult(keys, sets, uid) == {sid \in SMembers(sets, uid) : KeyLive(keys, sid)}

RevokeTargetsAll(ids, except) == ids

\* the ids SessionManager.RevokeAllSessions queues commands for
RevokeTargets(ids, except) == {id \in ids : id # except}

\* se_pc after a step of process p (of the clock, when p is no process); the
\* calls of the other processes are marked as overlapped
Step(p, rec) ==
    [q \in Procs |->
        IF q = p THEN rec
        ELSE IF "alone" \in DOMAIN se_pc[q] THEN [se_pc[q] EXCEPT !.alone = FALSE]
        ELSE se_pc[q]]

InitSess ==
    /\ now = 0
    /\ se_keys = <<>>
    /\ se_sets = <<>>
    /\ se_next = 1
    /\ se_pc = [p \in Procs |-> [op |-> "idle"]]
    /\ se_hist = [made |-> <<>>, returned |-> {}, revoked |-> {}]
    /\ se_last = [op |-> "none"]
    /\ RLIdle
    /\ CSIdle
    /\ OAIdle
    /\ AUIdle
    /\ MoreIdle

\* SessionManager.CreateSession: uuid.New(), then the first command of the pipeline
SECreateSet ==
    \E p \in Procs, uid \in UIDs :
        /\ se_pc[p].op = "idle"
        /\ se_next <= MaxSess
        /\ se_keys' = RedisSet(se_keys, se_next,
                               [id |-> se_next, user_id |-> uid, created_at |-> now,
                                last_active |-> now, expires_at |-> now + SessionTTL],
                               SessionTTL)
        /\ se_next' = se_next + 1
        /\ se_hist' = [se_hist EXCEPT !.made = MapPut(@, se_next, uid)]
        /\ se_pc' = Step(p, [op |-> "create", at |-> "sadd", sid |-> se_next, uid |-> uid])
        /\ se_last' = [op |-> "none"]
        /\ UNCHANGED <<now, se_sets, notSE>>

\* SessionManager.CreateSession: the second command of the pipeline
SECreateSAdd ==
    \E p \in Procs :
        /\ se_pc[p].op = "create"
        /\ se_pc[p].at = "sadd"
        /\ se_sets' = RedisSAdd(se_sets, se_pc[p].uid, se_pc[p].sid)
        /\ se_pc' = Step(p, [se_pc[p] EXCEPT !.at = "expire"])
        /\ se_last' = [op |-> "none"]
        /\ UNCHANGED <<now, se_keys, se_next, se_hist, notSE>>

\* SessionManager.CreateSession: the third command of the pipeline, and the return
SECreateExpire ==
    \E p \in Procs :
        /\ se_pc[p].op = "create"
        /\ se_pc[p].at = "expire"
        /\ se_sets' = RedisExpire(se_sets, se_pc[p].uid, SessionTTL)
        /\ se_hist' = [se_hist EXCEPT !.returned = @ \cup {se_pc[p].sid}]
        /\ se_last' = [op |-> "create", sid |-> se_pc[p].sid, uid |-> se_pc[p].uid]
        /\ se_pc' = Step(p, [op |-> "idle"])
        /\ UNCHANGED <<now, se_keys, se_next, notSE>>

\* SessionManager.GetSession
SEGetSession ==
    \E p \in Procs, sid \in SIDs :
        /\ se_pc[p].op = "idle"
        /\ sid < se_next
        /\ se_last' = [op |-> "get", sid |-> sid, session |-> GetSession(se_keys, sid)]
        /\ se_pc' = Step(p, [op |-> "idle"])
        /\ UNCHANGED <<now, se_keys, se_sets, se_next, se_hist, notSE>>

\* SessionManager.ListUserSessions: SMEMBERS
SEListMembers ==
    \E p \in Procs, uid \in UIDs :
        LET ids == SMembers(se_sets, uid)
        IN  /\ se_pc[p].op = "idle"
            /\ IF ids = {}
               THEN /\ se_last' = [op |-> "list", uid |-> uid, sessions |-> {}]
                    /\ se_pc' = Step(p, [op |-> "idle"])
               ELSE /\ se_pc' = Step(p, [op |-> "list", at |-> "get", uid |-> uid,
                                         todo |-> ids, out |-> {}, stale |-> 0])
                    /\ se_last' = [op |-> "none"]
            /\ UNCHANGED <<now, se_keys, se_sets, se_next, se_hist, notSE>>

\* SessionManager.ListUserSessions: GetSession of the next id of the loop
SEListGet ==
    \E p \in Procs :
        /\ se_pc[p].op = "list"
        /\ se_pc[p].at = "get"
        /\ \E id \in se_pc[p].todo :
             LET session == GetSession(se_keys, id)
                 rest == se_pc[p].todo \ {id}
                 out == se_pc[p].out \cup {session}
             IN  IF session = NilSession
                 THEN /\ se_pc' = Step(p, [se_pc[p] EXCEPT !.at = "srem", !.stale = id,
                                                           !.todo = rest])
                      /\ se_last' = [op |-> "none"]
                 ELSE IF rest = {}
                 THEN /\ se_last' = [op |-> "list", uid |-> se_pc[p].uid, sessions |-> out]
                      /\ se_pc' = Step(p, [op |-> "idle"])
                 ELSE /\ se_pc' = Step(p, [se_pc[p] EXCEPT !.todo = rest, !.out = out])
                      /\ se_last' = [op |-> "none"]
        /\ UNCHANGED <<now, se_keys, se_sets, se_next, se_hist, notSE>>

\* SessionManager.ListUserSessions: SREM of a stale reference
SEListSRem ==
    \E p \in Procs :
        /\ se_pc[p].op = "list"
        /\ se_pc[p].at = "srem"
        /\ se_sets' = RedisSRem(se_sets, se_pc[p].uid, se_pc[p].stale)
        /\ IF se_pc[p].todo = {}
           THEN /\ se_last' = [op |-> "list", uid |-> se_pc[p].uid,
                               sessions |-> se_pc[p].out]
                /\ se_pc' = Step(p, [op |-> "idle"])
           ELSE /\ se_pc' = Step(p, [se_pc[p] EXCEPT !.at = "get", !.stale = 0])
                /\ se_last' = [op |-> "none"]
        /\ UNCHANGED <<now, se_keys, se_next, se_hist, notSE>>

\* SessionManager.RevokeSession: the first command of the pipeline.  The id
\* of the request is one uuid.New() has produced.
SERevokeDel ==
    \E p \in Procs, sid \in SIDs, uid \in UIDs :
        /\ se_pc[p].op = "idle"
        /\ sid < se_next
        /\ se_keys' = RedisDel(se_keys, sid)
        /\ se_pc' = Step(p, [op |-> "revoke", sid |-> sid, uid |-> uid])
        /\ se_last' = [op |-> "none"]
        /\ UNCHANGED <<now, se_sets, se_next, se_hist, notSE>>

\* SessionManager.RevokeSession: the second command of the pipeline, and the return
SERevokeSRem ==
    \E p \in Procs :
        /\ se_pc[p].op = "revoke"
        /\ se_sets' = RedisSRem(se_sets, se_pc[p].uid, se_pc[p].sid)
        /\ se_hist' = [se_hist EXCEPT !.revoked =
                          IF /\ se_pc[p].sid \in se_hist.returned
                             /\ se_hist.made[se_pc[p].sid] = se_pc[p].uid
                          THEN @ \cup {se_pc[p].sid} ELSE @]
        /\ se_last' = se_pc[p]
        /\ se_pc' = Step(p, [op |-> "idle"])
        /\ UNCHANGED <<now, se_keys, se_next, notSE>>

\* what a RevokeAllSessions call leaves behind when it returns
RevokeAllResult(rec, keys, sets) ==
    [op |-> "revoke_all", uid |-> rec.uid, except |-> rec.except, read |-> rec.read,
     live0 |-> rec.live0, deleted |-> rec.deleted,
     alone |-> rec.alone,
     list |-> ListResult(keys, sets, rec.uid),
     live |-> {sid \in DOMAIN keys : KeyLive(keys, sid)}]

\* Handler.RevokeAllSessions with X-Session-ID = except (0: no header),
\* SessionManager.RevokeAllSessions: SMEMBERS
SERevokeAllMembers ==
    \E p \in Procs, uid \in UIDs, except \in 0..MaxSess :
        LET ids == SMembers(se_sets, uid)
            rec == [op |-> "revoke_all", at |-> "del", uid |-> uid, except |-> except,
                    read |-> ids, live0 |-> ListResult(se_keys, se_sets, uid),
                    alone |-> TRUE, deleted |-> {},
                    todo |-> RevokeTargets(ids, except), cur |-> 0]
        IN  /\ se_pc[p].op = "idle"
            /\ except < se_next
            /\ IF rec.todo = {}
               THEN /\ se_last' = RevokeAllResult(rec, se_keys, se_sets)
                    /\ se_pc' = Step(p, [op |-> "idle"])
               ELSE /\ se_pc' = Step(p, rec)
                    /\ se_last' = [op |-> "none"]
            /\ UNCHANGED <<now, se_keys, se_sets, se_next, se_hist, notSE>>

\* SessionManager.RevokeAllSessions: DEL of the next id of the pipeline
SERevokeAllDel ==
    \E p \in Procs :
        /\ se_pc[p].op = "revoke_all"
        /\ se_pc[p].at = "del"
        /\ \E id \in se_pc[p].todo :
             /\ se_keys' = RedisDel(se_keys, id)
             /\ se_pc' = Step(p, [se_pc[p] EXCEPT !.at = "srem", !.cur = id,
                                                  !.todo = @ \ {id},
                                                  !.deleted = @ \cup {id}])
        /\ se_last' = [op |-> "none"]
        /\ UNCHANGED <<now, se_sets, se_next, se_hist, notSE>>

\* SessionManager.RevokeAllSessions: SREM of that id; the return after the last one
SERevokeAllSRem ==
    \E p \in Procs :
        /\ se_pc[p].op = "revoke_all"
        /\ se_pc[p].at = "srem"
        /\ se_sets' = RedisSRem(se_sets, se_pc[p].uid, se_pc[p].cur)
        /\ IF se_pc[p].todo = {}
           THEN /\ se_last' = RevokeAllResult(se_pc[p], se_keys, se_sets')
                /\ se_pc' = Step(p, [op |-> "idle"])
           ELSE /\ se_pc' = Step(p, [se_pc[p] EXCEPT !.at = "del", !.cur = 0])
                /\ se_last' = [op |-> "none"]
        /\ UNCHANGED <<now, se_keys, se_next, se_hist, notSE>>

\* the clock advances; Redis drops the keys whose expiry has come
SETick ==
    /\ now < MaxTime
    /\ now' = now + 1
    /\ se_keys' = [sid \in {k \in DOMAIN se_keys :
                                se_keys[k].exp = NoExpiry \/ now + 1 < se_keys[k].exp}
                    |-> se_keys[sid]]
    /\ se_sets' = [uid \in {k \in DOMAIN se_sets :
                                se_sets[k].exp = NoExpiry \/ now + 1 < se_sets[k].exp}
                    |-> se_sets[uid]]
    /\ se_pc' = Step("", <<>>)
    /\ se_last' = [op |-> "none"]
    /\ UNCHANGED <<se_next, se_hist, notSE>>

NextSess ==
    \/ SECreateSet \/ SECreateSAdd \/ SECreateExpire
    \/ SEGetSession
    \/ SEListMembers \/ SEListGet \/ SEListSRem
    \/ SERevokeDel \/ SERevokeSRem
    \/ SERevokeAllMembers \/ SERevokeAllDel \/ SERevokeAllSRem
    \/ SETick

SpecSess == InitSess /\ [][NextSess]_vars

\* C8: once CreateSession has returned sid for uid and a RevokeSession(sid,
\* uid) has then completed, ListUserSessions(uid) does not contain sid and
\* GetSession(sid) returns not-found.
RevokedSessionGone ==
    \A sid \in se_hist.revoked :
        /\ sid \notin ListResult(se_keys, se_sets, se_hist.made[sid])
        /\ GetSession(se_keys, sid) = NilSession

\* C9 (as amended): when RevokeAllSessions(uid, A) returns, every sid that was
\* in the user's set when the call read it, other than A, has had its key
\* deleted and is out of the set, and the call has deleted nothing else;
\* ListUserSessions(uid) is exactly S \cap {A}, S the sessions live when the
\* call began, when no other registry call and no clock tick overlapped it.
RevokeAllExcept ==
    se_last.op = "revoke_all" =>
        /\ se_last.deleted = se_last.read \ {se_last.except}
        /\ se_last.deleted \cap (se_last.list \cup se_last.live) = {}
        /\ se_last.alone => se_last.list = se_last.live0 \cap {se_last.except}

RevokeAllExceptWitness ==
    /\ se_last.op = "revoke_all"
    /\ se_last.alone
    /\ se_last.except \in se_last.live0
    /\ se_last.deleted \cap se_last.live0 # {}
    /\ se_last.list = {se_last.except}

\* C9 (as claimed): after RevokeAllSessions(uid, A) completes, every session of
\* the user other than A is gone and A remains if it was in the live set S;
\* ListUserSessions(uid) is exactly S \cap {A}.
RevokeAllExceptExact ==
    se_last.op = "revoke_all" => se_last.list = se_last.live0 \cap {se_last.except}

\* C11: the auth middleware attaches a User to the request context if and
\* only if a bearer token is present, the token verifies, the user exists and
\* the user is active; otherwise the request carries no identity and a route
\* wrapped in RequireAuth answers 401.
AuthIdentityIffActive ==
    au_last.op = "request" =>
        /\ au_last.user # NilUser <=>
              /\ au_last.token # NoToken
              /\ au_last.token.alg \in {"HS256", "HS384", "HS512"}
              /\ au_last.token.key = JWTSecretKey
              /\ au_last.at < au_last.token.exp
              /\ au_last.token.user_id \in DOMAIN au_db
              /\ au_db[au_last.token.user_id].active
        /\ au_last.user = NilUser => au_last.required = 401

(***************************************************************************)
(* User creation: Handler.Register and the find-or-create step of          *)
(* Handler.OAuthCallback, one goroutine per request, against the users     *)
(* table.  Every query is one step; the goroutines interleave between      *)
(* queries.  The table's schema is not part of the gateway: ur_unique      *)
(* says whether it carries UNIQUE(username) and UNIQUE(email), which       *)
(* PostgreSQL enforces on the text values as they were inserted.           *)
(***************************************************************************)
Usernames == {"ann", "bob"}

\* e-mail addresses, character by character
UserEmails ==
    {<<"a", "@", "x", ".", "i", "o">>, <<"A", "@", "x", ".", "i", "o">>,
     <<"b", "@", "x", ".", "i", "o">>}

UrIdlePc(status, code) == [op |-> "idle", status |-> status, code |-> code]

\* DB.GetUserByEmail: SELECT ... FROM users WHERE email = $1; an error when
\* the query fails or no row matches
UsersByEmail(users, email, fails) ==
    IF fails THEN {} ELSE {id \in DOMAIN users : users[id].email = email}

\* DB.GetUserByUsername: SELECT ... FROM users WHERE username = $1
UsersByUsername(users, username, fails) ==
    IF fails THEN {} ELSE {id \in DOMAIN users : users[id].username = username}

\* the INSERT of DB.CreateUser is rejected by a unique index of the table
InsertRejected(users, row) ==
    /\ ur_unique
    /\ \E id \in DOMAIN users :
          users[id].username = row.username \/ users[id].email = row.email

\* DB.CreateUser: INSERT INTO users ...
CreateUser(users, id, row) == MapPut(users, id, row)

InitUsers ==
    /\ now = 0
    /\ ur_unique \in BOOLEAN
    /\ ur_users = <<>>
    /\ ur_next = 1
    /\ ur_pc = [g \in Goroutines |-> UrIdlePc(0, "")]
    /\ RLIdle
    /\ CSIdle
    /\ OAIdle
    /\ AUIdle
    /\ SEIdle
    /\ HSIdle
    /\ STIdle
    /\ SCIdle
    /\ LateIdle

\* Register: decodeAndValidate, then the e-mail lookup
RegisterCheckEmail ==
    \E g \in Goroutines, username \in Usernames, email \in UserEmails,
       valid \in BOOLEAN, fails \in BOOLEAN :
        /\ ur_pc[g].op = "idle"
        /\ ur_pc' = [ur_pc EXCEPT ![g] =
              IF ~valid THEN UrIdlePc(400, "validation_error")
              ELSE IF UsersByEmail(ur_users, email, fails) # {}
                   THEN UrIdlePc(400, "email_exists")
              ELSE [op |-> "register", at |-> "username",
                    username |-> username, email |-> email]]
        /\ UNCHANGED <<now, ur_unique, ur_users, ur_next, notUR>>

\* Register: the username lookup, validatePassword and HashPassword
RegisterCheckUsername ==
    \E g \in Goroutines, weak \in BOOLEAN, fails \in BOOLEAN :
        /\ ur_pc[g].op = "register"
        /\ ur_pc[g].at = "username"
        /\ ur_pc' = [ur_pc EXCEPT ![g] =
              IF UsersByUsername(ur_users, ur_pc[g].username, fails) # {}
                   THEN UrIdlePc(400, "username_exists")
              ELSE IF weak THEN UrIdlePc(400, "weak_password")
              ELSE [ur_pc[g] EXCEPT !.at = "insert"]]
        /\ UNCHANGED <<now, ur_unique, ur_users, ur_next, notUR>>

\* OAuthCallback after the state check and the code exchange:
\* GetUserByEmail(oauthUser.Email); any error leads to the creation of a user
OAuthFindUser ==
    \E g \in Goroutines, name \in Usernames, email \in UserEmails, fails \in BOOLEAN :
        /\ ur_pc[g].op = "idle"
        /\ ur_pc' = [ur_pc EXCEPT ![g] =
              IF UsersByEmail(ur_users, email, fails) = {}
              THEN [op |-> "oauth", at |-> "insert", username |-> name, email |-> email]
              ELSE UrIdlePc(307, "")]
        /\ UNCHANGED <<now, ur_unique, ur_users, ur_next, notUR>>

\* Register and OAuthCallback: h.db.CreateUser and the answer
InsertUser ==
    \E g \in Goroutines :
        LET row == [username |-> ur_pc[g].username, email |-> ur_pc[g].email] IN
        /\ ur_pc[g].op \in {"register", "oauth"}
        /\ ur_pc[g].at = "insert"
        /\ ur_next <= MaxUsers
        /\ IF InsertRejected(ur_users, row)
           THEN /\ ur_pc' = [ur_pc EXCEPT ![g] = UrIdlePc(500, "internal_error")]
                /\ UNCHANGED <<ur_users, ur_next>>
           ELSE /\ ur_users' = CreateUser(ur_users, ur_next, row)
                /\ ur_next' = ur_next + 1
                /\ ur_pc' = [ur_pc EXCEPT ![g] =
                      UrIdlePc(IF ur_pc[g].op = "register" THEN 201 ELSE 307, "")]
        /\ UNCHANGED <<now, ur_unique, notUR>>

NextUsers == RegisterCheckEmail \/ RegisterCheckUsername \/ OAuthFindUser \/ InsertUser

SpecUsers == InitUsers /\ [][NextUsers]_vars

ToLowerChar(c) == IF c = "A" THEN "a" ELSE c

\* strings.ToLower on an e-mail address
ToLower(s) == [i \in DOMAIN s |-> ToLowerChar(s[i])]

\* C12: in every reachable state, after any sequence and any interleaving of
\* Register and OAuthCallback requests, no two users share a username and no
\* two users share an e-mail address, e-mail addresses compared
\* case-insensitively.
UsersUnique ==
    \A i, j \in DOMAIN ur_users :
        i # j =>
            /\ ur_users[i].username # ur_users[j].username
            /\ ToLower(ur_users[i].email) # ToLower(ur_users[j].email)

(***************************************************************************)
(* The login routes and the session routes of the gateway, one request at  *)
(* a time: Handler.Login, the end of Handler.OAuthCallback, and the three   *)
(* session handlers behind Auth.Middleware and Auth.RequireAuth.           *)
(* hs_sessions is Handler.sessions as main set it: nil without REDIS_URL.  *)
(***************************************************************************)
\* chi.URLParam(r, "id") and the X-Session-ID header; NoSessionID is ""
NoSessionID == 0

SessionIDs == SIDs \cup {NoSessionID}

\* writeJSON / writeError of a session handler
HsResp(status, code, sessions, message) ==
    [status |-> status, code |-> code, sessions |-> sessions, message |-> message]

RECURSIVE SRemAll(_, _, _)
\* the SREM commands ListUserSessions sends for the stale ids
SRemAll(sets, uid, ids) ==
    IF ids = {} THEN sets
    ELSE LET id == CHOOSE x \in ids : TRUE
         IN  SRemAll(RedisSRem(sets, uid, id), uid, ids \ {id})

RECURSIVE DelAll(_, _)
\* the DEL commands of RevokeAllSessions
DelAll(keys, ids) ==
    IF ids = {} THEN keys
    ELSE LET id == CHOOSE x \in ids : TRUE
         IN  DelAll(RedisDel(keys, id), ids \ {id})

\* Handler.ListSessions
ListSessionsHandler(user, sessions, fails) ==
    IF user = NilUser THEN HsResp(401, "unauthorized", {}, "Not authenticated")
    ELSE IF sessions = "nil"
    THEN HsResp(200, "", {}, "Session management requires Redis")
    ELSE IF fails THEN HsResp(500, "internal_error", {}, "Failed to list sessions")
    ELSE HsResp(200, "", ListResult(se_keys, se_sets, user.id), "")

RevokeSessionHandlerNoNilCheck(user, sessionID, sessions, fails) ==
    IF user = NilUser THEN HsResp(401, "unauthorized", {}, "Not authenticated")
    ELSE IF sessionID = NoSessionID
    THEN HsResp(400, "missing_id", {}, "Session ID required")
    ELSE IF sessions # "nil" /\ fails
    THEN HsResp(500, "internal_error", {}, "Failed to revoke session")
    ELSE HsResp(200, "", {}, "revoked")

\* Handler.RevokeSession
RevokeSessionHandler(user, sessionID, sessions, fails) ==
    IF user = NilUser THEN HsResp(401, "unauthorized", {}, "Not authenticated")
    ELSE IF sessionID = NoSessionID
    THEN HsResp(400, "missing_id", {}, "Session ID required")
    ELSE IF sessions = "nil"
    THEN HsResp(503, "unavailable", {}, "Session management requires Redis")
    ELSE IF fails THEN HsResp(500, "internal_error", {}, "Failed to revoke session")
    ELSE HsResp(200, "", {}, "revoked")

\* Handler.RevokeAllSessions
RevokeAllSessionsHandler(user, sessions, fails) ==
    IF user = NilUser THEN HsResp(401, "unauthorized", {}, "Not authenticated")
    ELSE IF sessions = "nil"
    THEN HsResp(503, "unavailable", {}, "Session management requires Redis")
    ELSE IF fails THEN HsResp(500, "internal_error", {}, "Failed to revoke sessions")
    ELSE HsResp(200, "", {}, "revoked_all")

\* Auth.RequireAuth in front of a session handler
BehindRequireAuth(user, resp) ==
    IF RequireAuth(user) = 401
    THEN HsResp(401, "Authentication required", {}, "")
    ELSE resp

InitHandlers ==
    /\ now = 0
    /\ AuthStart
    /\ hs_sessions \in {"nil", "redis"}
    /\ hs_last = [op |-> "none"]
    /\ RLIdle
    /\ CSIdle
    /\ OAIdle
    /\ SEIdle
    /\ URIdle
    /\ STIdle
    /\ SCIdle
    /\ LateIdle

\* GET /auth/sessions
HSListSessions ==
    \E cookieToken \in Presentable \cup {NoToken}, fails \in BOOLEAN :
        LET user == ContextUser("none", NoToken, cookieToken).user
            resp == BehindRequireAuth(user, ListSessionsHandler(user, hs_sessions, fails))
            ran == user # NilUser /\ hs_sessions # "nil" /\ ~fails
        IN  /\ hs_last' = [op |-> "list", user |-> user, id |-> NoSessionID, resp |-> resp]
            /\ se_sets' = IF ran
                          THEN SRemAll(se_sets, user.id,
                                       SMembers(se_sets, user.id) \
                                           ListResult(se_keys, se_sets, user.id))
                          ELSE se_sets
            /\ UNCHANGED <<now, auVars, se_keys, se_next, se_pc, se_hist, se_last,
                           hs_sessions, notHS>>

\* DELETE /auth/sessions/{id}
HSRevokeSession ==
    \E cookieToken \in Presentable \cup {NoToken}, sessionID \in SessionIDs,
       fails \in BOOLEAN :
        LET user == ContextUser("none", NoToken, cookieToken).user
            resp == BehindRequireAuth(user,
                        RevokeSessionHandler(user, sessionID, hs_sessions, fails))
            ran == resp.status = 200
        IN  /\ hs_last' = [op |-> "revoke", user |-> user, id |-> sessionID, resp |-> resp]
            /\ se_keys' = IF ran THEN RedisDel(se_keys, sessionID) ELSE se_keys
            /\ se_sets' = IF ran THEN RedisSRem(se_sets, user.id, sessionID) ELSE se_sets
            /\ UNCHANGED <<now, auVars, se_next, se_pc, se_hist, se_last,
                           hs_sessions, notHS>>

\* DELETE /auth/sessions
HSRevokeAllSessions ==
    \E cookieToken \in Presentable \cup {NoToken}, currentSessionID \in SessionIDs,
       fails \in BOOLEAN :
        LET user == ContextUser("none", NoToken, cookieToken).user
            resp == BehindRequireAuth(user,
                        RevokeAllSessionsHandler(user, hs_sessions, fails))
            ran == resp.status = 200
            ids == IF ran THEN RevokeTargets(SMembers(se_sets, user.id), currentSessionID)
                   ELSE {}
        IN  /\ hs_last' = [op |-> "revoke_all", user |-> user, id |-> currentSessionID,
                           resp |-> resp]
            /\ se_keys' = DelAll(se_keys, ids)
            /\ se_sets' = IF ran THEN SRemAll(se_sets, user.id, ids) ELSE se_sets
            /\ UNCHANGED <<now, auVars, se_next, se_pc, se_hist, se_last,
                           hs_sessions, notHS>>

\* Handler.OAuthCallback for a provider account whose e-mail a user has:
\* tokens, cookies and the redirect to the frontend
OAuthCallbackLogin ==
    \E email \in Emails :
        LET found == GetUserByEmail(email, FALSE)
        IN  /\ ~found.err
            /\ Cardinality(au_minted) + 2 <= MaxMinted
            /\ au_minted' = au_minted \cup
                   {[by |-> "access", token |-> CreateAccessToken(found.user)],
                    [by |-> "refresh", token |-> CreateRefreshToken(found.user)]}
            /\ au_last' = [op |-> "oauth_login", email |-> email, status |-> 307,
                           cookie |-> CreateAccessToken(found.user)]
            /\ UNCHANGED <<now, au_db, au_mfa_ok, notAU>>

\* a path segment that is a chi URL parameter ({provider}, {id})
Param == "{}"

\* the routes main registers, as method and path segments
RouteTable ==
    {<<"GET", <<"health">>>>,
     <<"POST", <<"auth", "register">>>>,
     <<"POST", <<"auth", "login">>>>,
     <<"GET", <<"auth", "me">>>>,
     <<"GET", <<"auth", "oauth", "providers">>>>,
     <<"GET", <<"auth", "oauth", Param>>>>,
     <<"GET", <<"auth", "oauth", Param, "callback">>>>,
     <<"POST", <<"auth", "mfa", "setup">>>>,
     <<"POST", <<"auth", "mfa", "enable">>>>,
     <<"POST", <<"auth", "mfa", "verify">>>>,
     <<"POST", <<"auth", "mfa", "disable">>>>,
     <<"GET", <<"auth", "sessions">>>>,
     <<"DELETE", <<"auth", "sessions", Param>>>>,
     <<"DELETE", <<"auth", "sessions">>>>,
     <<"GET", <<"projects">>>>,
     <<"POST", <<"projects">>>>,
     <<"GET", <<"projects", Param>>>>,
     <<"POST", <<"projects", Param, "tasks">>>>,
     <<"GET", <<"projects", Param, "tasks">>>>,
     <<"GET", <<"projects", Param, "dashboard">>>>,
     <<"GET", <<"admin", "providers">>>>}

\* chi: a pattern matches a path segment by segment; a parameter matches
\* any segment
PatternMatches(pattern, path) ==
    /\ Len(pattern) = Len(path)
    /\ \A i \in 1..Len(path) : pattern[i] = path[i] \/ pattern[i] = Param

\* chi.Mux: 0 when a route serves the request, else the status of the
\* NotFound or MethodNotAllowed handler
RouteStatus(method, path) ==
    IF \E r \in RouteTable : r[1] = method /\ PatternMatches(r[2], path) THEN 0
    ELSE IF \E r \in RouteTable : PatternMatches(r[2], path) THEN 405
    ELSE 404

RequestPaths ==
    {<<"auth", "logout">>, <<"auth", "login">>, <<"auth", "sessions">>, <<"metrics">>}

\* a request no route of main serves
HSUnrouted ==
    \E method \in {"GET", "POST", "DELETE"}, path \in RequestPaths :
        /\ RouteStatus(method, path) # 0
        /\ hs_last' = [op |-> "route", method |-> method, path |-> path,
                       again |-> /\ hs_last.op = "route"
                                 /\ hs_last.method = method
                                 /\ hs_last.path = path,
                       resp |-> HsResp(RouteStatus(method, path), "", {}, ""),
                       cookies |-> {}]
        /\ UNCHANGED <<now, auVars, seVars, hs_sessions, notHS>>

NextHandlers ==
    \/ Login
    \/ OAuthCallbackLogin
    \/ HSListSessions
    \/ HSRevokeSession
    \/ HSRevokeAllSessions
    \/ HSUnrouted
    \/ Tick

SpecHandlers == InitHandlers /\ [][NextHandlers]_vars

\* C13: without a session manager, for an authenticated user GET
\* /auth/sessions answers 200 with an empty session list and a message, and
\* DELETE /auth/sessions/{id} and DELETE /auth/sessions answer 503 with the
\* error code unavailable; none of them answers 500.
SessionsDegrade ==
    (/\ hs_sessions = "nil"
     /\ hs_last.op \in {"list", "revoke", "revoke_all"}
     /\ hs_last.user # NilUser) =>
        /\ hs_last.resp.status # 500
        /\ hs_last.op = "list" =>
              /\ hs_last.resp.status = 200
              /\ hs_last.resp.sessions = {}
              /\ hs_last.resp.message # ""
        /\ (hs_last.op = "revoke" /\ hs_last.id # NoSessionID) =>
              /\ hs_last.resp.status = 503
              /\ hs_last.resp.code = "unavailable"
        /\ hs_last.op = "revoke_all" =>
              /\ hs_last.resp.status = 503
              /\ hs_last.resp.code = "unavailable"

SessionsDegradeWitness ==
    /\ hs_sessions = "nil"
    /\ hs_last.op = "revoke"
    /\ hs_last.user # NilUser
    /\ hs_last.id # NoSessionID
    /\ hs_last.resp.status = 503

\* the user a login answered for
LoginUser(last) == CHOOSE u \in DOMAIN au_db : au_db[u].email = last.email

\* C14: with a session manager present, every successful password login and
\* every successful OAuth login creates a session for the user: right after
\* it ListUserSessions(uid) contains a session that was not there before.
LoginCreatesSession ==
    [][(/\ hs_sessions = "redis"
        /\ au_last' # au_last
        /\ \/ au_last'.op = "login" /\ au_last'.status = 200
           \/ au_last'.op = "oauth_login" /\ au_last'.status = 307)
       => ListResult(se_keys', se_sets', LoginUser(au_last')) \
              ListResult(se_keys, se_sets, LoginUser(au_last')) # {}]_vars

\* C15: POST /auth/logout called twice in a row answers 200 both times, and
\* the second call changes no server-side or cookie state that the first
\* call had not already changed.
LogoutIdempotent ==
    [][(/\ hs_last' # hs_last
        /\ hs_last'.op = "route"
        /\ hs_last'.method = "POST"
        /\ hs_last'.path = <<"auth", "logout">>)
       => /\ hs_last'.resp.status = 200
          /\ hs_last'.again =>
                /\ UNCHANGED <<auVars, seVars, hs_sessions>>
                /\ hs_last'.cookies = {}]_vars

\* a presented token that Auth.CreateAccessToken or Auth.CreateRefreshToken
\* minted, unaltered
GenuineRequest ==
    /\ au_last.op = "request"
    /\ au_last.token # NoToken
    /\ au_last.by # {}

\* C16: with time in whole units, a bearer token presented one unit before
\* its expires-at is accepted by ValidateToken and the same token presented
\* one unit after its expires-at is rejected; no token is accepted at any
\* time later than its expires-at.
TokenExpiryBoundary ==
    /\ GenuineRequest =>
          /\ au_last.at = au_last.token.exp - 1 => au_last.valid
          /\ au_last.at = au_last.token.exp + 1 => ~au_last.valid
    /\ (au_last.op = "request" /\ au_last.token # NoToken
            /\ au_last.at > au_last.token.exp) => ~au_last.valid

TokenExpiryBoundaryWitness ==
    /\ GenuineRequest
    /\ au_last.at = au_last.token.exp + 1
    /\ ~au_last.valid
    /\ au_last.user = NilUser

\* C17: every request the general limiter rejects gets status 429 with
\* Retry-After: 60 and the error code rate_limit_exceeded and is not
\* forwarded; requests to /health and /metrics are never rejected by the
\* limiter and never count against any client's bucket.
RateLimitRejectAndBypass ==
    /\ [](rl_last.kind # "none" =>
            /\ ~rl_last.forwarded =>
                  /\ rl_last.status = 429
                  /\ rl_last.retryAfter = 60
                  /\ rl_last.code = "rate_limit_exceeded"
            /\ rl_last.status = 429 => ~rl_last.forwarded
            /\ rl_last.path \in {"/health", "/metrics"} =>
                  /\ rl_last.forwarded
                  /\ rl_last.status # 429)
    /\ [][(rl_last' # rl_last /\ rl_last'.path \in {"/health", "/metrics"})
             => rl_requests' = rl_requests]_vars

RateLimitRejectAndBypassWitness ==
    /\ rl_last.kind = "bypass"
    /\ rl_last.path = "/metrics"
    /\ \E k \in Addrs : \E i \in 1..Len(rl_log[k]) : ~rl_log[k][i].ok
    /\ \E k \in DOMAIN rl_requests : Len(rl_requests[k]) >= rl_limit

(***************************************************************************)
(* POST /auth/mfa/verify through the middleware chain of main: the general *)
(* RateLimiter is the only limiter in front of Handler.MFAVerify.          *)
(***************************************************************************)
InitMfaLimit ==
    /\ now = 0
    /\ rl_limit \in 1..MaxMfaReq
    /\ rl_requests = <<>>
    /\ rl_log = [k \in Addrs |-> <<>>]
    /\ rl_last = [kind |-> "none"]
    /\ CSIdle
    /\ OAIdle
    /\ AUIdle
    /\ SEIdle
    /\ MoreIdle

\* RateLimiter.Middleware, then Handler.MFAVerify
MfaVerifyRequest ==
    \E remoteAddr \in Addrs, forwarded \in Addrs \cup {""}, wellFormed \in BOOLEAN :
        LET path == "/auth/mfa/verify"
            clientIP == ClientKey(remoteAddr, forwarded)
            cutoff == now - RLWindow
            filtered == RecentOnly(MapGet(rl_requests, clientIP, <<>>), cutoff)
            admitted == RLBypassed(path) \/ ~(Len(filtered) >= rl_limit)
        IN  /\ Len(rl_log[clientIP]) < MaxMfaReq
            /\ rl_requests' =
                  IF RLBypassed(path) THEN rl_requests
                  ELSE MapPut(rl_requests, clientIP,
                              IF admitted THEN Append(filtered, now) ELSE filtered)
            /\ rl_log' = [rl_log EXCEPT
                             ![clientIP] = Append(@, [t |-> now, ok |-> admitted,
                                                      retryAfter |-> IF admitted THEN 0
                                                                     ELSE 60])]
            /\ rl_last' = IF admitted
                          THEN [kind |-> "mfa_verify",
                                status |-> IF wellFormed THEN 200 ELSE 400,
                                retryAfter |-> 0, forwarded |-> TRUE,
                                code |-> IF wellFormed THEN "" ELSE "validation_error",
                                path |-> path]
                          ELSE [kind |-> "mfa_verify", status |-> 429, retryAfter |-> 60,
                                forwarded |-> FALSE, code |-> "rate_limit_exceeded",
                                path |-> path]
            /\ UNCHANGED <<now, rl_limit, notRL>>

NextMfaLimit == MfaVerifyRequest \/ RLSweep \/ Tick

SpecMfaLimit == InitMfaLimit /\ [][NextMfaLimit]_vars

\* C18: for any client key at most 5 requests to POST /auth/mfa/verify are
\* admitted within any 5-minute sliding window; each further attempt inside
\* the window is answered 429 with Retry-After: 300 and does not reach the
\* handler.
MfaVerifyLimit ==
    /\ \A k \in Addrs :
          \A i \in 1..Len(rl_log[k]) :
              LET L == rl_log[k]
                  admittedBefore ==
                      {j \in 1..(i - 1) : L[j].ok /\ L[i].t - L[j].t < 5 * RLWindow}
              IN  Cardinality(admittedBefore) >= 5 =>
                      /\ ~L[i].ok
                      /\ L[i].retryAfter = 300
    /\ (rl_last.kind = "mfa_verify" /\ rl_last.status = 429) => ~rl_last.forwarded

(***************************************************************************)
(* Start of the process: main from config.Load to ListenAndServe.          *)
(***************************************************************************)
DevSecretKey == "dev-secret-key-change-in-production"

EnvValues ==
    [KYROS_ENV : {"", "dev", "production"},
     JWT_SECRET_KEY : {"", DevSecretKey, "0f3a-from-openssl-rand-hex-32"},
     REDIS_URL : {"", "redis://cache:6379"},
     SESSION_TTL_HOURS : {"", "0", "24", "soon"}]

\* getEnv: the variable, or the default when it is unset or empty
getEnv(env, key, defaultValue) == IF env[key] # "" THEN env[key] ELSE defaultValue

\* strconv.Atoi on the values the environment can hold
Atoi(value) ==
    IF value = "0" THEN [i |-> 0, err |-> FALSE]
    ELSE IF value = "24" THEN [i |-> 24, err |-> FALSE]
    ELSE [i |-> 0, err |-> TRUE]

\* getEnvInt: the default when the variable is unset or is no integer
getEnvInt(env, key, defaultValue) ==
    IF env[key] # "" /\ ~Atoi(env[key]).err THEN Atoi(env[key]).i ELSE defaultValue

\* config.Load
Load(env) ==
    [Environment |-> getEnv(env, "KYROS_ENV", "dev"),
     JWTSecretKey |-> getEnv(env, "JWT_SECRET_KEY", DevSecretKey),
     RedisURL |-> getEnv(env, "REDIS_URL", ""),
     SessionTTLHours |-> getEnvInt(env, "SESSION_TTL_HOURS", 168)]

InitStart ==
    /\ now = 0
    /\ st_env \in EnvValues
    /\ st_cfg = <<>>
    /\ st_sessions = "nil"
    /\ st_pc = "start"
    /\ RLIdle
    /\ CSIdle
    /\ OAIdle
    /\ AUIdle
    /\ SEIdle
    /\ URIdle
    /\ HSIdle
    /\ SCIdle
    /\ LateIdle

\* main: cfg := config.Load()
STLoad ==
    /\ st_pc = "start"
    /\ st_cfg' = Load(st_env)
    /\ st_pc' = "loaded"
    /\ UNCHANGED <<now, st_env, st_sessions, notST>>

\* main: db.New(cfg.DatabaseURL); os.Exit(1) when the database is not reached
STConnectDB ==
    \E reached \in BOOLEAN :
        /\ st_pc = "loaded"
        /\ st_pc' = IF reached THEN "connected" ELSE "exited"
        /\ UNCHANGED <<now, st_env, st_cfg, st_sessions, notST>>

\* main: auth.New, NewOAuthManager, NewSessionManager when REDIS_URL is set
\* (a failure is logged and leaves the manager nil), handlers, router
STWire ==
    \E redisUp \in BOOLEAN :
        /\ st_pc = "connected"
        /\ st_sessions' = IF st_cfg.RedisURL # "" /\ redisUp THEN "redis" ELSE "nil"
        /\ st_pc' = "wired"
        /\ UNCHANGED <<now, st_env, st_cfg, notST>>

\* main: server.ListenAndServe in its goroutine; os.Exit(1) on its error
STListen ==
    \E bound \in BOOLEAN :
        /\ st_pc = "wired"
        /\ st_pc' = IF bound THEN "listening" ELSE "exited"
        /\ UNCHANGED <<now, st_env, st_cfg, st_sessions, notST>>

\* main: SIGINT or SIGTERM, server.Shutdown
STShutdown ==
    /\ st_pc = "listening"
    /\ st_pc' = "stopped"
    /\ UNCHANGED <<now, st_env, st_cfg, st_sessions, notST>>

NextStart == STLoad \/ STConnectDB \/ STWire \/ STListen \/ STShutdown

SpecStart == InitStart /\ [][NextStart]_vars

\* C19: when KYROS_ENV is production and JWT_SECRET_KEY is empty or equals
\* the dev placeholder, the gateway never reaches the state in which it
\* listens and serves requests.
ProductionStartGuard ==
    (/\ st_env # <<>>
     /\ st_env.KYROS_ENV = "production"
     /\ st_env.JWT_SECRET_KEY \in {"", DevSecretKey}) => st_pc # "listening"

(***************************************************************************)
(* SessionManager.CreateSession, statement by statement: the Session       *)
(* struct reads the clock three times (CreatedAt, LastActive, ExpiresAt),  *)
(* and the clock may advance between the reads.  sessionTTL is whatever    *)
(* main passed to NewSessionManager: SESSION_TTL_HOURS hours, any integer. *)
(***************************************************************************)
SessionTTLs == (0 - 1)..MaxTTL

\* go-redis Set: an expiration that is not positive sends SET without expiry
RedisSetTTL(keys, sid, value, ttl) ==
    IF ttl > 0 THEN RedisSet(keys, sid, value, ttl)
    ELSE MapPut(keys, sid, [val |-> value, exp |-> NoExpiry])

\* EXPIRE key ttl: a timeout that is not positive deletes the key
RedisExpireTTL(sets, uid, ttl) ==
    IF ttl > 0 THEN RedisExpire(sets, uid, ttl) ELSE MapDel(sets, uid)

InitCreate ==
    /\ now = 0
    /\ sc_ttl \in SessionTTLs
    /\ sc_pc = [at |-> "idle"]
    /\ sc_out = NilSession
    /\ se_keys = <<>>
    /\ se_sets = <<>>
    /\ se_next = 1
    /\ se_pc = <<>>
    /\ se_hist = <<>>
    /\ se_last = [op |-> "none"]
    /\ RLIdle
    /\ CSIdle
    /\ OAIdle
    /\ AUIdle
    /\ URIdle
    /\ HSIdle
    /\ STIdle
    /\ LateIdle

\* ID: uuid.New().String(), ..., CreatedAt: time.Now().UTC()
SCCreatedAt ==
    \E uid \in UIDs :
        /\ sc_pc.at = "idle"
        /\ se_next <= MaxSess
        /\ sc_pc' = [at |-> "last_active", id |-> se_next, user_id |-> uid,
                     created_at |-> now]
        /\ se_next' = se_next + 1
        /\ UNCHANGED <<now, sc_ttl, sc_out, se_keys, se_sets, se_pc, se_hist, se_last,
                       notSC>>

\* LastActive: time.Now().UTC()
SCLastActive ==
    /\ sc_pc.at = "last_active"
    /\ sc_pc' = [at |-> "expires_at", id |-> sc_pc.id, user_id |-> sc_pc.user_id,
                 created_at |-> sc_pc.created_at, last_active |-> now]
    /\ UNCHANGED <<now, sc_ttl, sc_out, seVars, notSC>>

\* ExpiresAt: time.Now().UTC().Add(m.sessionTTL)
SCExpiresAt ==
    /\ sc_pc.at = "expires_at"
    /\ sc_pc' = [at |-> "exec", id |-> sc_pc.id, user_id |-> sc_pc.user_id,
                 created_at |-> sc_pc.created_at, last_active |-> sc_pc.last_active,
                 expires_at |-> now + sc_ttl]
    /\ UNCHANGED <<now, sc_ttl, sc_out, seVars, notSC>>

\* json.Marshal, the pipeline SET, SADD, EXPIRE, and `return session, nil`
SCExec ==
    LET session == [id |-> sc_pc.id, user_id |-> sc_pc.user_id,
                    created_at |-> sc_pc.created_at,
                    last_active |-> sc_pc.last_active,
                    expires_at |-> sc_pc.expires_at]
    IN  /\ sc_pc.at = "exec"
        /\ se_keys' = RedisSetTTL(se_keys, session.id, session, sc_ttl)
        /\ se_sets' = RedisExpireTTL(RedisSAdd(se_sets, session.user_id, session.id),
                                     session.user_id, sc_ttl)
        /\ sc_out' = session
        /\ sc_pc' = [at |-> "idle"]
        /\ UNCHANGED <<now, sc_ttl, se_next, se_pc, se_hist, se_last, notSC>>

\* the clock, and the keys Redis expires
SCTick ==
    /\ now < MaxTime
    /\ now' = now + 1
    /\ se_keys' = [sid \in {s \in DOMAIN se_keys :
                               se_keys[s].exp = NoExpiry \/ now + 1 < se_keys[s].exp}
                     |-> se_keys[sid]]
    /\ se_sets' = [uid \in {u \in DOMAIN se_sets :
                               se_sets[u].exp = NoExpiry \/ now + 1 < se_sets[u].exp}
                     |-> se_sets[uid]]
    /\ UNCHANGED <<scVars, se_next, se_pc, se_hist, se_last, notSC>>

NextCreate == SCCreatedAt \/ SCLastActive \/ SCExpiresAt \/ SCExec \/ SCTick

SpecCreate == InitCreate /\ [][NextCreate]_vars

\* C20: every session produced by CreateSession satisfies created-at <
\* expires-at and expires-at - created-at <= sessionTTL, for every
\* configured sessionTTL.
SessionTimes ==
    sc_out # NilSession =>
        /\ sc_out.created_at < sc_out.expires_at
        /\ sc_out.expires_at - sc_out.created_at <= sc_ttl

(***************************************************************************)
(* The middleware chain of main.                                           *)
(*                                                                         *)
(* main registers, outer to inner: Recoverer, Logger,                      *)
(* RateLimiter.Middleware, cors.Handler, Auth.Middleware; then the router  *)
(* (with RequireAuth on the protected routes) and the handler.  A          *)
(* middleware is an operator from the outcome of the chain inside it to    *)
(* its own outcome.  An outcome carries:                                   *)
(*   trace    the stages entered, outer to inner                           *)
(*   status   the status the client receives (0: no response written)      *)
(*   code     the error code of the body                                   *)
(*   panic    a panic is unwinding out of the stage                        *)
(*   logs     the access-log records written                               *)
(*   requests RateLimiter.requests afterwards                              *)
(***************************************************************************)
RECURSIVE URLPath(_)
\* r.URL.Path of a request for the given segments
URLPath(segs) == IF segs = <<>> THEN "" ELSE "/" \o Head(segs) \o URLPath(Tail(segs))

ChainMethods == {"GET", "POST", "DELETE", "OPTIONS"}

\* the clients of the chain: one address is enough for the order of stages
ChainAddrs == {"10.0.0.1"}

ChainPaths ==
    {<<"health">>, <<"auth", "login">>, <<"auth", "mfa", "verify">>,
     <<"auth", "sessions">>, <<"auth", "logout">>}

\* the routes main wraps in r.With(authService.RequireAuth)
ProtectedRoutes ==
    {<<"GET", <<"auth", "me">>>>,
     <<"POST", <<"auth", "mfa", "setup">>>>,
     <<"POST", <<"auth", "mfa", "enable">>>>,
     <<"POST", <<"auth", "mfa", "disable">>>>,
     <<"GET", <<"auth", "sessions">>>>,
     <<"DELETE", <<"auth", "sessions", Param>>>>,
     <<"DELETE", <<"auth", "sessions">>>>,
     <<"POST", <<"projects">>>>,
     <<"POST", <<"projects", Param, "tasks">>>>,
     <<"GET", <<"projects", Param, "dashboard">>>>}

Outcome(trace, status, code, panic, logs, requests) ==
    [trace |-> trace, status |-> status, code |-> code, panic |-> panic,
     logs |-> logs, requests |-> requests]

Enter(stage, inner) == [inner EXCEPT !.trace = <<stage>> \o @]

\* a handler: it answers, or a runtime fault panics before it has written
HandlerStage(req) ==
    IF req.fault
    THEN Outcome(<<"handler">>, 0, "", TRUE, <<>>, rl_requests)
    ELSE Outcome(<<"handler">>, 200, "", FALSE, <<>>, rl_requests)

\* Auth.RequireAuth
RequireAuthStage(req) ==
    IF ~req.identity
    THEN Outcome(<<"RequireAuth">>, 401, "Authentication required", FALSE, <<>>,
                 rl_requests)
    ELSE Enter("RequireAuth", HandlerStage(req))

\* chi.Mux routing the request
RouterStage(req) ==
    IF RouteStatus(req.method, req.path) # 0
    THEN Outcome(<<"router">>, RouteStatus(req.method, req.path), "", FALSE, <<>>,
                 rl_requests)
    ELSE IF \E r \in ProtectedRoutes :
                r[1] = req.method /\ PatternMatches(r[2], req.path)
    THEN Enter("router", RequireAuthStage(req))
    ELSE Enter("router", HandlerStage(req))

\* Auth.Middleware: attaches the user when the token verifies, and always
\* calls next
AuthPopulateStage(req) == Enter("Auth.Middleware", RouterStage(req))

\* cors.Handler: a preflight request is answered here, any other is passed on
CorsStage(req) ==
    IF req.method = "OPTIONS" /\ req.preflight
    THEN Outcome(<<"cors">>, 200, "", FALSE, <<>>, rl_requests)
    ELSE Enter("cors", AuthPopulateStage(req))

\* RateLimiter.Middleware
RateLimitStage(req) ==
    LET clientIP == ClientKey(req.remoteAddr, "")
        cutoff == now - RLWindow
        filtered == RecentOnly(MapGet(rl_requests, clientIP, <<>>), cutoff)
        inner == CorsStage(req)
    IN  IF RLBypassed(URLPath(req.path)) THEN Enter("RateLimiter", inner)
        ELSE IF Len(filtered) >= rl_limit
        THEN Outcome(<<"RateLimiter">>, 429, "rate_limit_exceeded", FALSE, <<>>,
                     MapPut(rl_requests, clientIP, filtered))
        ELSE [Enter("RateLimiter", inner) EXCEPT
                 !.requests = MapPut(rl_requests, clientIP, Append(filtered, now))]

\* middleware.Logger: log.Info runs once next.ServeHTTP has returned
LoggerStage(req) ==
    LET inner == RateLimitStage(req)
    IN  IF inner.panic THEN Enter("Logger", inner)
        ELSE [Enter("Logger", inner) EXCEPT
                 !.logs = Append(@, [method |-> req.method, path |-> URLPath(req.path),
                                     status |-> inner.status])]

\* a Recoverer without its deferred recover()
RecovererNoRecover(req) == Enter("Recoverer", LoggerStage(req))

\* middleware.Recoverer
Recoverer(req) ==
    LET inner == LoggerStage(req)
    IN  IF inner.panic
        THEN [Enter("Recoverer", inner) EXCEPT
                 !.status = 500, !.code = "internal_error", !.panic = FALSE]
        ELSE Enter("Recoverer", inner)

InitChain ==
    /\ now = 0
    /\ rl_limit \in 1..MaxLimit
    /\ rl_requests = <<>>
    /\ rl_log = <<>>
    /\ rl_last = [kind |-> "none"]
    /\ ch_faulted = FALSE
    /\ ch_last = [op |-> "none"]
    /\ CSIdle
    /\ OAIdle
    /\ AUIdle
    /\ SEIdle
    /\ EarlyIdle
    /\ COIdle
    /\ SWIdle
    /\ TCIdle
    /\ LOIdle

\* one request served by the http.Server of main
ChainRequest ==
    \E method \in ChainMethods, path \in ChainPaths, remoteAddr \in ChainAddrs,
       identity \in BOOLEAN, fault \in BOOLEAN, preflight \in BOOLEAN :
        LET req == [method |-> method, path |-> path, remoteAddr |-> remoteAddr,
                    identity |-> identity, fault |-> fault, preflight |-> preflight]
            out == Recoverer(req)
        IN  /\ preflight => method = "OPTIONS"
            /\ rl_requests' = out.requests
            /\ ch_last' = [op |-> "request", method |-> method, path |-> path,
                           trace |-> out.trace,
                           status |-> out.status, code |-> out.code,
                           propagated |-> out.panic, logs |-> out.logs,
                           faulted |-> fault /\ "handler" \in Range(out.trace),
                           afterFault |-> ch_faulted]
            /\ ch_faulted' = (ch_faulted \/ (fault /\ "handler" \in Range(out.trace)))
            /\ UNCHANGED <<now, rl_limit, rl_log, rl_last, notCH>>

NextChain == ChainRequest \/ RLSweep \/ Tick

SpecChain == InitChain /\ [][NextChain]_vars

\* the stages of a trace that come before the router
BeforeRouter(trace) ==
    SelectSeq(trace, LAMBDA st : st \notin {"router", "RequireAuth", "handler"})

\* the admission order for a request, in the names of the code: Recoverer
\* (PanicGuard), Logger (AccessLog), RateLimiter, MFALimit on the
\* TOTP-verification endpoint only, cors, SecurityHeaders, CSRF,
\* Auth.Middleware (AuthPopulate)
FixedOrder(path) ==
    <<"Recoverer", "Logger", "RateLimiter">>
    \o (IF path = <<"auth", "mfa", "verify">> THEN <<"MFALimit">> ELSE <<>>)
    \o <<"cors", "SecurityHeaders", "CSRF", "Auth.Middleware">>

\* C21: every request that reaches the router has passed PanicGuard,
\* AccessLog, RateLimit, MFALimit (TOTP-verification endpoints only), CORS,
\* SecurityHeaders, CSRF and AuthPopulate in this order; a request the rate
\* limiter rejects reaches neither CSRF nor authentication nor a handler; no
\* handler runs for an unsafe-method request that has not passed CSRF.
AdmissionOrder ==
    ch_last.op = "request" =>
        /\ "router" \in Range(ch_last.trace) =>
               BeforeRouter(ch_last.trace) = FixedOrder(ch_last.path)
        /\ ch_last.code = "rate_limit_exceeded" =>
               Range(ch_last.trace) \cap {"CSRF", "Auth.Middleware", "router",
                                          "RequireAuth", "handler"} = {}
        /\ ("handler" \in Range(ch_last.trace) /\ ~SafeMethod(ch_last.method)) =>
               "CSRF" \in Range(ch_last.trace)

AccessLogged ==
    (ch_last.op = "request" /\ ch_last.status # 0) =>
        /\ Len(ch_last.logs) = 1
        /\ ch_last.logs[1].status = ch_last.status

(***************************************************************************)
(* The console's authentication state (AuthProvider).                      *)
(*                                                                         *)
(* The callbacks of AuthProvider are async functions on the one thread of  *)
(* the browser: a callback runs from one await to the next without         *)
(* interleaving, and the state setters it calls in between take effect     *)
(* together.  co_pc[c].at is the await the callback c is suspended at:     *)
(* "post" (the POST of login, logout or refresh) or "me" (GET /auth/me in  *)
(* fetchCurrentUser).                                                      *)
(***************************************************************************)
Callbacks == {"fetchCurrentUser", "login", "logout", "refresh"}

\* `isAuthenticated: Boolean(user && token)`
IsAuthenticated(user, token) == user # "null" /\ token # "null"

CoIdlePc == [at |-> "idle", auth |-> FALSE]

InitConsole ==
    /\ now = 0
    /\ co_user = "null"
    /\ co_token = "null"
    /\ co_loading = FALSE
    /\ co_session \in BOOLEAN
    /\ co_pc = [c \in Callbacks |-> CoIdlePc]
    /\ co_last = [op |-> "none"]
    /\ RLIdle
    /\ CSIdle
    /\ OAIdle
    /\ AUIdle
    /\ SEIdle
    /\ EarlyIdle
    /\ CHIdle
    /\ SWIdle
    /\ TCIdle
    /\ LOIdle

\* a callback is called and runs to its first await
COCall(c) ==
    /\ co_pc[c].at = "idle"
    /\ co_pc' = [co_pc EXCEPT
                    ![c] = [at |-> IF c = "fetchCurrentUser" THEN "me" ELSE "post",
                            auth |-> IsAuthenticated(co_user, co_token)]]
    /\ co_loading' = IF c = "logout" THEN co_loading ELSE TRUE
    /\ co_last' = [op |-> "call"]
    /\ UNCHANGED <<now, co_user, co_token, co_session, notCO>>

\* fetchCurrentUser from `await apiClient('/auth/me')` on; login and refresh
\* end with `await fetchCurrentUser()`
COMeDone(c) ==
    \E ok \in BOOLEAN :
        /\ co_pc[c].at = "me"
        /\ ok => co_session
        /\ co_user' = IF ok THEN "user" ELSE "null"
        /\ co_token' = IF ok THEN "cookie-auth" ELSE "null"
        /\ co_loading' = FALSE
        /\ co_pc' = [co_pc EXCEPT ![c] = CoIdlePc]
        /\ co_last' = [op |-> c, ok |-> ok, auth |-> co_pc[c].auth]
        /\ UNCHANGED <<now, co_session, notCO>>

\* login from `await api.post('/auth/login')` on
COLoginPosted ==
    \E ok \in BOOLEAN :
        /\ co_pc["login"].at = "post"
        /\ co_session' = (co_session \/ ok)
        /\ co_loading' = IF ok THEN TRUE ELSE FALSE
        /\ co_token' = IF ok THEN "cookie-auth" ELSE co_token
        /\ co_pc' = [co_pc EXCEPT
                        !["login"] = IF ok THEN [@ EXCEPT !.at = "me"] ELSE CoIdlePc]
        /\ co_last' = IF ok THEN [op |-> "await"]
                      ELSE [op |-> "login", ok |-> FALSE, auth |-> co_pc["login"].auth]
        /\ UNCHANGED <<now, co_user, notCO>>

\* refresh from `await apiClient('/auth/refresh')` on
CORefreshPosted ==
    \E ok \in BOOLEAN :
        /\ co_pc["refresh"].at = "post"
        /\ ok => co_session
        /\ co_user' = IF ok THEN co_user ELSE "null"
        /\ co_token' = IF ok THEN co_token ELSE "null"
        /\ co_loading' = IF ok THEN TRUE ELSE FALSE
        /\ co_pc' = [co_pc EXCEPT
                        !["refresh"] = IF ok THEN [@ EXCEPT !.at = "me"] ELSE CoIdlePc]
        /\ co_last' = IF ok THEN [op |-> "await"]
                      ELSE [op |-> "refresh", ok |-> FALSE, auth |-> co_pc["refresh"].auth]
        /\ UNCHANGED <<now, co_session, notCO>>

\* a logout that clears the state only when the POST succeeded
COLogoutPostedClearOnSuccess ==
    \E ok \in BOOLEAN :
        /\ co_pc["logout"].at = "post"
        /\ co_session' = (co_session /\ ~ok)
        /\ co_token' = IF ok THEN "null" ELSE co_token
        /\ co_user' = IF ok THEN "null" ELSE co_user
        /\ co_loading' = FALSE
        /\ co_pc' = [co_pc EXCEPT !["logout"] = CoIdlePc]
        /\ co_last' = [op |-> "logout", ok |-> ok, auth |-> co_pc["logout"].auth]
        /\ UNCHANGED <<now, notCO>>

\* logout from `await api.post('/auth/logout')` on: the catch swallows a
\* failed request
COLogoutPosted ==
    \E ok \in BOOLEAN :
        /\ co_pc["logout"].at = "post"
        /\ co_session' = (co_session /\ ~ok)
        /\ co_token' = "null"
        /\ co_user' = "null"
        /\ co_loading' = FALSE
        /\ co_pc' = [co_pc EXCEPT !["logout"] = CoIdlePc]
        /\ co_last' = [op |-> "logout", ok |-> ok, auth |-> co_pc["logout"].auth]
        /\ UNCHANGED <<now, notCO>>

NextConsole ==
    \/ \E c \in Callbacks : COCall(c)
    \/ \E c \in Callbacks \ {"logout"} : COMeDone(c)
    \/ COLoginPosted
    \/ CORefreshPosted
    \/ COLogoutPosted

SpecConsole == InitConsole /\ [][NextConsole]_vars

\* C22: when logout() returns, user is null, token is null and
\* isAuthenticated is false, whether POST /auth/logout succeeded or failed.
LogoutClears ==
    co_last.op = "logout" =>
        /\ co_user = "null"
        /\ co_token = "null"
        /\ ~IsAuthenticated(co_user, co_token)

LogoutClearsWitness ==
    /\ co_last.op = "logout"
    /\ co_last.auth
    /\ ~co_last.ok
    /\ co_user = "null"
    /\ co_token = "null"
    /\ co_pc["refresh"].at = "me"

\* C23: a request with client key a changes only the bucket of a, and
\* whether a request with key b is admitted is determined by the earlier
\* requests with key b alone (those admitted within the window before it),
\* in every interleaving of requests of different keys.
BucketsIndependent ==
    /\ [](\A k \in Addrs :
             LET L == rl_log[k]
             IN  \A i \in 1..Len(L) :
                     L[i].ok <=>
                         Cardinality({j \in 1..(i - 1) :
                                         L[j].ok /\ After(L[j].t, L[i].t - RLWindow)})
                             < rl_limit)
    /\ [][\A a, b \in Addrs :
             (a # b /\ rl_log'[a] # rl_log[a]) =>
                 MapGet(rl_requests', b, <<>>) = MapGet(rl_requests, b, <<>>)]_vars

BucketsIndependentWitness ==
    \E a, b \in Addrs :
        /\ a # b
        /\ rl_limit = 1
        /\ Len(rl_log[a]) = 2
        /\ ~rl_log[a][2].ok
        /\ Len(rl_log[b]) = 1
        /\ rl_log[b][1].ok
        /\ rl_log[b][1].t = rl_log[a][2].t
        /\ rl_last.status = 200
        /\ Len(MapGet(rl_requests, a, <<>>)) = 1
        /\ Len(MapGet(rl_requests, b, <<>>)) = 1

(***************************************************************************)
(* The background sweeper and the shutdown of main.                        *)
(*                                                                         *)
(* main builds one RateLimiter, whose constructor starts cleanupLoop, and  *)
(* passes its Middleware to the router without keeping the *RateLimiter:   *)
(* nothing can call Stop, so stopCleanup is never closed and the loop only *)
(* ever takes the ticker case.  main builds no CSRFProtection; its         *)
(* cleanupLoop (`for range ticker.C`) has no exit at all.                  *)
(*   sw_main: "listening", "stopped" (server.Shutdown has returned),       *)
(*            "exited" (main has returned, the process is gone)            *)
(*   sw_loop: "select" (blocked in the select of cleanupLoop), "returned"  *)
(*            (left through the stopCleanup case), "killed" (ended with    *)
(*            the process)                                                 *)
(***************************************************************************)
InitSweep ==
    /\ now = 0
    /\ rl_limit \in 1..MaxLimit
    /\ rl_requests = <<>>
    /\ rl_log = <<>>
    /\ rl_last = [kind |-> "none"]
    /\ sw_main = "listening"
    /\ sw_loop = "select"
    /\ CSIdle
    /\ OAIdle
    /\ AUIdle
    /\ SEIdle
    /\ EarlyIdle
    /\ CHIdle
    /\ COIdle
    /\ TCIdle
    /\ LOIdle

\* a request passes RateLimiter.Middleware while the server accepts
SWRequest ==
    \E remoteAddr \in Addrs :
        /\ sw_main = "listening"
        /\ rl_requests' =
               RateLimitStage([method |-> "POST", path |-> <<"auth", "login">>,
                               remoteAddr |-> remoteAddr, identity |-> FALSE,
                               fault |-> FALSE, preflight |-> FALSE]).requests
        /\ rl_requests' # rl_requests
        /\ UNCHANGED <<now, rl_limit, rl_log, rl_last, swVars, notSW>>

\* cleanupLoop: `case <-ticker.C: rl.cleanup()`
SWCleanup ==
    /\ sw_loop = "select"
    /\ RLSweep

\* main: SIGINT or SIGTERM, then server.Shutdown(ctx) returns
SWShutdown ==
    /\ sw_main = "listening"
    /\ sw_main' = "stopped"
    /\ UNCHANGED <<now, rlVars, sw_loop, notSW>>

\* main returns: the process and every goroutine of it end
SWExit ==
    /\ sw_main = "stopped"
    /\ sw_main' = "exited"
    /\ sw_loop' = IF sw_loop = "select" THEN "killed" ELSE sw_loop
    /\ UNCHANGED <<now, rlVars, notSW>>

SWTick ==
    /\ sw_main # "exited"
    /\ Tick

NextSweep == SWRequest \/ SWCleanup \/ SWShutdown \/ SWExit \/ SWTick

SpecSweep == InitSweep /\ [][NextSweep]_vars

\* C24: graceful shutdown signals every background sweeper and the sweeper
\* exits: once shutdown has completed no sweeper goroutine is still
\* running.
SweepersJoined == sw_main = "stopped" => sw_loop = "returned"

\* C25: the three writes of CreateSession take effect as one step: while a
\* CreateSession is between its call and its return, the store that a
\* concurrent GetSession, ListUserSessions or Revoke* reads never holds the
\* session key with sid missing from user_sessions:<uid>, nor sid in the set
\* with the session key missing.
CreateAtomic ==
    \A p \in Procs :
        se_pc[p].op = "create" =>
            (KeyLive(se_keys, se_pc[p].sid)
                 <=> se_pc[p].sid \in SMembers(se_sets, se_pc[p].uid))

\* C26: the two writes of RevokeSession take effect as one step: while a
\* RevokeSession is between its call and its return, the store a concurrent
\* reader reads never holds sid in user_sessions:<uid> with the session key
\* deleted, nor the session key with sid removed from the set.
RevokeAtomic ==
    \A p \in Procs :
        se_pc[p].op = "revoke" =>
            /\ se_pc[p].sid \in SMembers(se_sets, se_pc[p].uid)
                   => KeyLive(se_keys, se_pc[p].sid)
            /\ ( /\ KeyLive(se_keys, se_pc[p].sid)
                 /\ se_hist.made[se_pc[p].sid] = se_pc[p].uid )
                   => se_pc[p].sid \in SMembers(se_sets, se_pc[p].uid)

(***************************************************************************)
(* UpdateLastActive (Touch) and ListUserSessions.                          *)
(*                                                                         *)
(* UpdateLastActive issues three commands in three round trips: GET (in    *)
(* GetSession), TTL and SET; the clock and the other clients of Redis run  *)
(* in between.  CreateSession and RevokeSession appear here as runs in     *)
(* which nothing comes between the commands of their pipeline.             *)
(***************************************************************************)
\* TTL key, as go-redis returns it: -2ns for a missing key, -1ns for a key
\* without expiry
RedisTTL(keys, sid) ==
    IF ~KeyLive(keys, sid) THEN 0 - 2
    ELSE IF keys[sid].exp = NoExpiry THEN 0 - 1
    ELSE keys[sid].exp - now

InitTouch ==
    /\ now = 0
    /\ se_keys = <<>>
    /\ se_sets = <<>>
    /\ se_next = 1
    /\ se_pc = <<>>
    /\ se_hist = [made |-> <<>>, returned |-> {}, revoked |-> {}]
    /\ se_last = [op |-> "none"]
    /\ tc_pc = [at |-> "idle"]
    /\ tc_last = [op |-> "none"]
    /\ tl_pc = [at |-> "idle"]
    /\ tl_last = [op |-> "none"]
    /\ RLIdle
    /\ CSIdle
    /\ OAIdle
    /\ AUIdle
    /\ EarlyIdle
    /\ CHIdle
    /\ COIdle
    /\ SWIdle
    /\ LOIdle

\* SessionManager.CreateSession
TCCreate ==
    \E uid \in UIDs :
        /\ se_next <= MaxSess
        /\ se_keys' = RedisSet(se_keys, se_next,
                               [id |-> se_next, user_id |-> uid, created_at |-> now,
                                last_active |-> now, expires_at |-> now + SessionTTL],
                               SessionTTL)
        /\ se_sets' = RedisExpire(RedisSAdd(se_sets, uid, se_next), uid, SessionTTL)
        /\ se_next' = se_next + 1
        /\ se_hist' = [se_hist EXCEPT !.made = MapPut(@, se_next, uid),
                                      !.returned = @ \cup {se_next}]
        /\ tc_last' = [op |-> "none"]
        /\ tl_last' = [op |-> "none"]
        /\ UNCHANGED <<now, se_pc, se_last, tc_pc, tl_pc, notTC>>

\* SessionManager.RevokeSession
TCRevoke ==
    \E sid \in SIDs, uid \in UIDs :
        /\ sid < se_next
        /\ KeyLive(se_keys, sid)
        /\ se_keys[sid].val.user_id = uid
        /\ se_keys' = RedisDel(se_keys, sid)
        /\ se_sets' = RedisSRem(se_sets, uid, sid)
        /\ se_hist' = [se_hist EXCEPT !.revoked = @ \cup {sid}]
        /\ tc_last' = [op |-> "none"]
        /\ tl_last' = [op |-> "none"]
        /\ UNCHANGED <<now, se_next, se_pc, se_last, tc_pc, tl_pc, notTC>>

\* UpdateLastActive: GetSession, `session.LastActive = time.Now().UTC()`
TCGet ==
    \E sid \in SIDs :
        LET session == GetSession(se_keys, sid)
        IN  /\ tc_pc.at = "idle"
            /\ sid < se_next
            /\ IF session = NilSession
               THEN /\ tc_pc' = tc_pc
                    /\ tc_last' = [op |-> "touch", sid |-> sid, found |-> FALSE,
                                   keys0 |-> se_keys, keys1 |-> se_keys]
               ELSE /\ tc_pc' = [at |-> "ttl", sid |-> sid, key0 |-> se_keys[sid],
                                 session |-> [session EXCEPT !.last_active = now]]
                    /\ tc_last' = [op |-> "none"]
            /\ UNCHANGED <<now, seVars, tlVars, notTC>>

\* UpdateLastActive: `ttl, err := m.client.TTL(...)`
TCTtl ==
    /\ tc_pc.at = "ttl"
    /\ tc_pc' = [at |-> "set", sid |-> tc_pc.sid, key0 |-> tc_pc.key0,
                 session |-> tc_pc.session, ttl |-> RedisTTL(se_keys, tc_pc.sid)]
    /\ tc_last' = [op |-> "none"]
    /\ UNCHANGED <<now, seVars, tlVars, notTC>>

\* UpdateLastActive: `m.client.Set(ctx, key, data, ttl)`
TCSet ==
    /\ tc_pc.at = "set"
    /\ se_keys' = RedisSetTTL(se_keys, tc_pc.sid, tc_pc.session, tc_pc.ttl)
    /\ tc_pc' = [at |-> "idle"]
    /\ tc_last' = [op |-> "touch", sid |-> tc_pc.sid, found |-> TRUE,
                   key0 |-> tc_pc.key0, key1 |-> se_keys'[tc_pc.sid]]
    /\ tl_last' = [op |-> "none"]
    /\ UNCHANGED <<now, se_sets, se_next, se_pc, se_hist, se_last, tl_pc, notTC>>

\* the clock advances; Redis drops the keys whose expiry has come
TCTick ==
    /\ now < MaxTime
    /\ now' = now + 1
    /\ se_keys' = [sid \in {k \in DOMAIN se_keys :
                                se_keys[k].exp = NoExpiry \/ now + 1 < se_keys[k].exp}
                    |-> se_keys[sid]]
    /\ se_sets' = [uid \in {k \in DOMAIN se_sets :
                                se_sets[k].exp = NoExpiry \/ now + 1 < se_sets[k].exp}
                    |-> se_sets[uid]]
    /\ tc_last' = [op |-> "none"]
    /\ tl_last' = [op |-> "none"]
    /\ UNCHANGED <<se_next, se_pc, se_hist, se_last, tc_pc, tl_pc, notTC>>

\* what ListUserSessions leaves behind when it returns.  `undisturbed`
\* says that nothing but the call itself has changed the store or the clock
\* since the call began; `again` says that the call before was for the same
\* user and that the store and the clock were as that call left them when
\* this one began, `prev` is the result of that call and `prevPruned` says
\* that it removed a stale sid.  tl_last is dropped by every other write to
\* the store and by the clock.
ListReturn(rec, sets) ==
    [op |-> "list", uid |-> rec.uid, sessions |-> rec.out, sets0 |-> rec.sets0,
     again |-> rec.again, prev |-> rec.prev, prevPruned |-> rec.prevPruned,
     sets |-> sets,
     undisturbed |-> /\ now = rec.t0
                     /\ se_keys = rec.keys0
                     /\ sets = rec.expect]

\* ListUserSessions: SMEMBERS
TLMembers ==
    \E uid \in UIDs :
        LET ids == SMembers(se_sets, uid)
            again == /\ tl_last.op = "list"
                     /\ tl_last.uid = uid
                     /\ tl_last.undisturbed
            rec == [at |-> "get", uid |-> uid, todo |-> ids, out |-> {}, stale |-> 0,
                    t0 |-> now, keys0 |-> se_keys, sets0 |-> se_sets,
                    expect |-> se_sets, again |-> again,
                    prev |-> IF again THEN tl_last.sessions ELSE {},
                    prevPruned |-> again /\ tl_last.sets # tl_last.sets0]
        IN  /\ tl_pc.at = "idle"
            /\ IF ids = {}
               THEN /\ tl_last' = ListReturn(rec, se_sets)
                    /\ tl_pc' = tl_pc
               ELSE /\ tl_pc' = rec
                    /\ tl_last' = tl_last
            /\ UNCHANGED <<now, seVars, tcVars, notTL>>

\* a loop that skips a missing session without the SREM
TLGetNoClean ==
    /\ tl_pc.at = "get"
    /\ \E id \in tl_pc.todo :
         LET session == GetSession(se_keys, id)
             rest == tl_pc.todo \ {id}
             out == IF session = NilSession THEN tl_pc.out ELSE tl_pc.out \cup {session}
         IN  IF rest = {}
             THEN /\ tl_last' = ListReturn([tl_pc EXCEPT !.out = out], se_sets)
                  /\ tl_pc' = [at |-> "idle"]
             ELSE /\ tl_pc' = [tl_pc EXCEPT !.todo = rest, !.out = out]
                  /\ tl_last' = tl_last
    /\ UNCHANGED <<now, seVars, tcVars, notTL>>

\* ListUserSessions: GetSession of the next id of the loop
TLGet ==
    /\ tl_pc.at = "get"
    /\ \E id \in tl_pc.todo :
         LET session == GetSession(se_keys, id)
             rest == tl_pc.todo \ {id}
             out == tl_pc.out \cup {session}
         IN  IF session = NilSession
             THEN /\ tl_pc' = [tl_pc EXCEPT
                                  !.at = "srem", !.stale = id, !.todo = rest,
                                  !.expect = RedisSRem(@, tl_pc.uid, id)]
                  /\ tl_last' = tl_last
             ELSE IF rest = {}
             THEN /\ tl_last' = ListReturn([tl_pc EXCEPT !.out = out], se_sets)
                  /\ tl_pc' = [at |-> "idle"]
             ELSE /\ tl_pc' = [tl_pc EXCEPT !.todo = rest, !.out = out]
                  /\ tl_last' = tl_last
    /\ UNCHANGED <<now, seVars, tcVars, notTL>>

\* ListUserSessions: SREM of a stale reference
TLSRem ==
    /\ tl_pc.at = "srem"
    /\ se_sets' = RedisSRem(se_sets, tl_pc.uid, tl_pc.stale)
    /\ IF tl_pc.todo = {}
       THEN /\ tl_last' = ListReturn(tl_pc, se_sets')
            /\ tl_pc' = [at |-> "idle"]
       ELSE /\ tl_pc' = [tl_pc EXCEPT !.at = "get", !.stale = 0]
            /\ tl_last' = tl_last
    /\ UNCHANGED <<now, se_keys, se_next, se_pc, se_hist, se_last, tcVars, notTL>>

NextTouch == TCCreate \/ TCRevoke \/ TCGet \/ TCTtl \/ TCSet \/ TCTick

SpecTouch == InitTouch /\ [][NextTouch]_vars

NextList == TCCreate \/ TCRevoke \/ TCTick \/ TLMembers \/ TLGet \/ TLSRem

SpecList == InitTouch /\ [][NextList]_vars

\* C27: an UpdateLastActive of a session it found leaves the stored session
\* as it was but for last_active, leaves the key with an expiry that is not
\* later than before, and no step of it changes the user's sid set; an
\* UpdateLastActive of a missing session writes nothing.
TouchFrame ==
    /\ [](tc_last.op = "touch" =>
             IF tc_last.found
             THEN /\ tc_last.key1.val =
                         [tc_last.key0.val EXCEPT
                             !.last_active = tc_last.key1.val.last_active]
                  /\ tc_last.key1.exp # NoExpiry
                  /\ tc_last.key1.exp <= tc_last.key0.exp
             ELSE tc_last.keys1 = tc_last.keys0)
    /\ [][(tc_pc' # tc_pc \/ tc_last'.op = "touch") => se_sets' = se_sets]_vars

LookupOutcome(users, email, fails) ==
    IF fails THEN "error"
    ELSE IF UsersByEmail(users, email, fails) = {} THEN "not_found"
    ELSE "found"

\* the answer of a finished OAuthCallback
CallbackDone(status, code, lookup, created, tokens) ==
    [op |-> "idle", status |-> status, code |-> code, callback |-> TRUE,
     lookup |-> lookup, created |-> created, tokens |-> tokens]

\* OAuthCallback: user, err := h.db.GetUserByEmail(...); if err != nil, a new
\* user is built; otherwise the tokens are made and the cookies set
OAuthCallbackFind ==
    \E g \in Goroutines, name \in Usernames, email \in UserEmails, fails \in BOOLEAN :
        /\ ur_pc[g].op = "idle"
        /\ ur_pc' = [ur_pc EXCEPT ![g] =
              IF UsersByEmail(ur_users, email, fails) = {}
              THEN [op |-> "oauth", at |-> "insert", username |-> name,
                    email |-> email,
                    lookup |-> LookupOutcome(ur_users, email, fails)]
              ELSE CallbackDone(307, "", "found", FALSE, TRUE)]
        /\ UNCHANGED <<now, ur_unique, ur_users, ur_next, notUR>>

\* OAuthCallback: h.db.CreateUser(user); 500 internal_error when it fails,
\* otherwise the tokens are made and the cookies set
OAuthCallbackCreate ==
    \E g \in Goroutines, fails \in BOOLEAN :
        LET row == [username |-> ur_pc[g].username, email |-> ur_pc[g].email] IN
        /\ ur_pc[g].op = "oauth"
        /\ ur_pc[g].at = "insert"
        /\ ur_next <= MaxUsers
        /\ IF fails \/ InsertRejected(ur_users, row)
           THEN /\ ur_pc' = [ur_pc EXCEPT ![g] =
                     CallbackDone(500, "internal_error", ur_pc[g].lookup, FALSE, FALSE)]
                /\ UNCHANGED <<ur_users, ur_next>>
           ELSE /\ ur_users' = CreateUser(ur_users, ur_next, row)
                /\ ur_next' = ur_next + 1
                /\ ur_pc' = [ur_pc EXCEPT ![g] =
                     CallbackDone(307, "", ur_pc[g].lookup, TRUE, TRUE)]
        /\ UNCHANGED <<now, ur_unique, notUR>>

NextFind == OAuthCallbackFind \/ OAuthCallbackCreate

SpecFind == InitUsers /\ [][NextFind]_vars

\* C31: a finished OAuthCallback has created a user only when its lookup by
\* e-mail reported not-found; when the lookup found a user, that user is
\* logged in and none is created; when the lookup failed with a database
\* error, no user is created and no tokens are issued.
FindOrCreate ==
    \A g \in Goroutines :
        (ur_pc[g].op = "idle" /\ ur_pc[g].status # 0) =>
            /\ ur_pc[g].created => ur_pc[g].lookup = "not_found"
            /\ ur_pc[g].lookup = "found" => (~ur_pc[g].created /\ ur_pc[g].tokens)
            /\ ur_pc[g].lookup = "error" => (~ur_pc[g].created /\ ~ur_pc[g].tokens)

(***************************************************************************)
(* Lifetime of an OAuth state ticket.  A handler that has read the map     *)
(* goes on to its delete, and the clock advances; nothing obliges a client *)
(* to come back with the state it was given.                               *)
(***************************************************************************)
SpecOAuthFair ==
    /\ InitOAuth
    /\ [][NextOAuth]_vars
    /\ WF_vars(OAuthValidateDelete)
    /\ WF_vars(Tick)

\* C32: a state ticket lives at most 10 minutes: its expiry is never more
\* than 10 minutes ahead, and a callback is accepted only strictly before the
\* expiry of the ticket it read; and every ticket in the store is eventually
\* destroyed, by its consume or by its expiry.
StateExpiry ==
    /\ [](\A s \in DOMAIN oa_states : oa_states[s] <= now + OAuthStateTTL)
    /\ [][\A s \in StateValues :
             oa_true'[s] > oa_true[s] =>
                 \E g \in Goroutines :
                     /\ oa_pc[g].at = "found"
                     /\ oa_pc[g].state = s
                     /\ now < oa_pc[g].exp
                     /\ oa_pc[g].exp <= now + OAuthStateTTL]_vars
    /\ \A s \in 1..MaxStates :
           [](s \in DOMAIN oa_states => <>(s \notin DOMAIN oa_states))

\* C33: when an authenticated user submits a secret and a code that validates
\* against it, MFAEnable answers 200 and the user's row holds mfa_enabled,
\* that secret and hashed backup codes; when the code does not validate, the
\* answer is 400 invalid_code and the users table is unchanged.
MfaEnablePersists ==
    /\ []((au_last.op = "mfa_enable" /\ au_last.status = 200) =>
             /\ au_db[au_last.uid].mfa_enabled
             /\ au_db[au_last.uid].mfa_secret = au_last.secret
             /\ au_db[au_last.uid].backup_codes # <<>>)
    /\ [][(au_last'.op = "mfa_enable" /\ au_last'.status = 400) =>
             (au_last'.body = "invalid_code" /\ au_db' = au_db)]_vars

(***************************************************************************)
(* Logout and the token denylist.  main registers no /auth/logout route    *)
(* and Auth.ValidateToken reads nothing but the token and the key, so the  *)
(* request is answered by the router and leaves no trace in the gateway;   *)
(* lo_presented remembers which tokens were presented to it.               *)
(***************************************************************************)
InitLogout ==
    /\ now = 0
    /\ AuthStart
    /\ lo_kv \in BOOLEAN
    /\ lo_presented = {}
    /\ RLIdle
    /\ CSIdle
    /\ OAIdle
    /\ SEIdle
    /\ EarlyIdle
    /\ CHIdle
    /\ COIdle
    /\ SWIdle
    /\ TCIdle

\* POST /auth/logout with an access token that verifies
LogoutRequest ==
    \E token \in Presentable :
        /\ ValidateToken(token)
        /\ lo_presented' = lo_presented \cup {token}
        /\ au_last' = [op |-> "logout", token |-> token, at |-> now,
                       status |-> LET routed == RouteStatus("POST", <<"auth", "logout">>)
                                  IN  IF routed = 0 THEN 200 ELSE routed]
        /\ UNCHANGED <<now, au_db, au_minted, au_mfa_ok, lo_kv, notLO>>

NextLogout == Login \/ AuthMiddleware \/ LogoutRequest \/ Tick

SpecLogout == InitLogout /\ [][NextLogout]_vars

\* C34: when the KVCache is present, a request that presents an access token
\* after that token was presented to Logout gets no identity from it, expired
\* or not; when the KVCache is absent, such a token is verified as any other.
LogoutRevokes ==
    (au_last.op = "request" /\ au_last.token \in lo_presented) =>
        IF lo_kv
        THEN ~au_last.valid /\ au_last.user = NilUser
        ELSE au_last.valid <=>
                 /\ au_last.token.alg \in {"HS256", "HS384", "HS512"}
                 /\ au_last.token.key = JWTSecretKey
                 /\ au_last.at < au_last.token.exp

(***************************************************************************)
(* The sweeper next to the requests.  Without cleanup the bucket of a key  *)
(* holds the times of its admitted requests, filtered at each request of   *)
(* that key; the part of it that counts at an instant is the admitted      *)
(* times inside the window.                                                *)
(***************************************************************************)
RECURSIVE AdmittedTimes(_)
AdmittedTimes(L) ==
    IF L = <<>> THEN <<>>
    ELSE LET front == AdmittedTimes(SubSeq(L, 1, Len(L) - 1))
         IN  IF L[Len(L)].ok THEN Append(front, L[Len(L)].t) ELSE front

\* the timestamps of bucket k that a step removed
SweptOut(k) ==
    {t \in Range(rl_requests[k]) : t \notin Range(MapGet(rl_requests', k, <<>>))}

\* a step of RateLimiter.cleanup that changed the map
CleanupStep == rl_requests' # rl_requests /\ rl_log' = rl_log

\* every request is decided on the bucket it would find had cleanup never run
SameDecisions ==
    \A k \in Addrs :
        /\ RecentOnly(MapGet(rl_requests, k, <<>>), now - RLWindow) =
               RecentOnly(AdmittedTimes(rl_log[k]), now - RLWindow)
        /\ \A i \in 1..Len(rl_log[k]) :
               rl_log[k][i].ok <=>
                   Len(RecentOnly(AdmittedTimes(SubSeq(rl_log[k], 1, i - 1)),
                                  rl_log[k][i].t - RLWindow)) < rl_limit

\* cleanup keeps every timestamp inside the window and deletes a bucket only
\* when nothing is left in it
CleanupKeepsWindow ==
    CleanupStep =>
        \A k \in DOMAIN rl_requests :
            /\ MapGet(rl_requests', k, <<>>) =
                   RecentOnly(rl_requests[k], now - RLWindow)
            /\ k \notin DOMAIN rl_requests' =>
                   RecentOnly(rl_requests[k], now - RLWindow) = <<>>

\* C35 (amended): for every interleaving of cleanup runs with requests each
\* request gets the decision it would get if cleanup never ran; cleanup only
\* deletes timestamps 60 s old or older and buckets left empty, and never
\* removes a timestamp that is still inside a client's window.
SweeperTransparent ==
    /\ []SameDecisions
    /\ [][CleanupKeepsWindow]_vars
    /\ [][CleanupStep =>
             \A k \in DOMAIN rl_requests :
                 \A t \in SweptOut(k) : now - t >= RLWindow]_vars

\* one key was swept away at an instant when the other held a timestamp
\* inside its window, and the other was then refused at its limit
SweeperTransparentWitness ==
    \E a, b \in Addrs :
        /\ a # b
        /\ rl_limit = 1
        /\ now = RLWindow
        /\ rl_log[b] # <<>>
        /\ b \notin DOMAIN rl_requests
        /\ Len(rl_log[a]) = 2
        /\ rl_log[a][1].t = RLWindow - 1
        /\ rl_log[a][1].ok
        /\ ~rl_log[a][2].ok
        /\ MapGet(rl_requests, a, <<>>) = <<RLWindow - 1>>

\* C35 (as claimed): ... cleanup only deletes timestamps older than 60 s.
SweeperTransparentStrict ==
    /\ []SameDecisions
    /\ [][CleanupKeepsWindow]_vars
    /\ [][CleanupStep =>
             \A k \in DOMAIN rl_requests :
                 \A t \in SweptOut(k) : now - t > RLWindow]_vars

\* a step of process p that belongs to a RevokeSession or RevokeAllSessions call
RevokeStep(p) ==
    \/ se_pc[p].op = "idle" /\ se_pc'[p].op = "revoke"
    \/ se_pc[p].op = "revoke" /\ se_pc'[p].op = "idle"
    \/ /\ se_pc[p].op = "revoke_all"
       /\ (se_pc'[p].op = "idle" \/ se_pc'[p].at # se_pc[p].at)

\* the user on whose behalf that call was issued
RevokeStepUser(p) == IF se_pc[p].op = "idle" THEN se_pc'[p].uid ELSE se_pc[p].uid

\* C36: no step of a RevokeSession or RevokeAllSessions call issued on behalf
\* of user u deletes or modifies a session whose user id is not u, whatever
\* session id the request names: the live sessions and the session set of
\* every other user are unchanged.
CrossUserIsolation ==
    [][\A p \in Procs :
          RevokeStep(p) =>
              \A v \in UIDs \ {RevokeStepUser(p)} :
                  /\ \A sid \in DOMAIN se_keys :
                         se_keys[sid].val.user_id = v =>
                             (sid \in DOMAIN se_keys' /\ se_keys'[sid] = se_keys[sid])
                  /\ SMembers(se_sets', v) = SMembers(se_sets, v)]_vars

\* C37: in every interleaving of UpdateLastActive with RevokeSession and with
\* key expiry, a session id that was issued and whose GetSession returns
\* not-found (revoked or expired) returns not-found from then on; and every
\* session key that exists carries an expiry, no later than the one set at
\* its creation.
TouchNeverResurrects ==
    /\ [][\A sid \in SIDs :
             (sid < se_next /\ GetSession(se_keys, sid) = NilSession) =>
                 (GetSession(se_keys, sid) = NilSession)']_vars
    /\ [](\A sid \in DOMAIN se_keys :
             /\ se_keys[sid].exp # NoExpiry
             /\ se_keys[sid].exp <= se_keys[sid].val.created_at + SessionTTL)

(***************************************************************************)
(* CSRFProtection.Middleware in front of Auth.Middleware, for a request    *)
(* with a state-changing method.  scheme "none" is a request without an    *)
(* Authorization header; scheme "Bearer" with no token is the header       *)
(* "Bearer " and scheme "Basic" any other header value.                     *)
(***************************************************************************)
InitCsrfAuth ==
    /\ now = 0
    /\ AuthStart
    /\ CSIdle
    /\ RLIdle
    /\ OAIdle
    /\ SEIdle
    /\ MoreIdle

\* CSRFProtection.Middleware, then Auth.Middleware
CsrfThenAuth ==
    \E method \in {"POST", "DELETE"}, scheme \in {"none", "Bearer", "Basic"},
       cookieToken \in {m.token : m \in au_minted} \cup {NoToken},
       cookie \in CsrfValues \cup {NoCookie} :
    \E headerToken \in IF scheme = "Bearer"
                        THEN {m.token : m \in au_minted} \cup {NoToken}
                        ELSE {NoToken},
       header \in {NoHeader, cookie, MaxTokens + 1} :
        LET skipped == scheme # "none"
            validated == /\ ~skipped
                         /\ cookie # NoCookie
                         /\ header # NoHeader
                         /\ header = cookie
                         /\ CSRFValidateToken(header)
            forwarded == skipped \/ validated
            ctx == ContextUser(scheme, headerToken, cookieToken)
        IN  /\ ~SafeMethod(method)
            /\ cs_last' = [kind |-> "chain", scheme |-> scheme,
                           skipped |-> skipped, validated |-> validated,
                           status |-> IF forwarded THEN 200 ELSE 403,
                           fromCookie |-> /\ forwarded
                                          /\ ctx.user # NilUser
                                          /\ ctx.token = cookieToken
                                          /\ (scheme # "Bearer" \/ headerToken = NoToken)]
            /\ UNCHANGED <<now, cs_tokens, cs_next, cs_issued, notCS>>

NextCsrfAuth == Login \/ CSSafeIssue \/ CsrfThenAuth

SpecCsrfAuth == InitCsrfAuth /\ [][NextCsrfAuth]_vars

\* C38: every request with a state-changing method for which the auth
\* middleware takes the identity from the access_token cookie has passed the
\* CSRF token validation; a request whose Authorization header is not a
\* valid "Bearer <token>" credential does not both skip the CSRF check and
\* get its identity from the cookie.
NoCsrfBypass ==
    (cs_last.kind = "chain" /\ cs_last.fromCookie) =>
        (cs_last.validated /\ ~cs_last.skipped)

\* C39: a client whose csrf_token cookie names a token the server issued and
\* that has expired (or been swept) gets, on its next request with a safe
\* method and no Authorization header, a fresh token in the cookie, valid at
\* that instant, so that the unsafe request echoing it is accepted.
CsrfRenewal ==
    ( /\ cs_last.kind = "req"
      /\ SafeMethod(cs_last.method)
      /\ ~cs_last.auth
      /\ cs_last.cookie \in DOMAIN cs_issued
      /\ cs_last.at > cs_issued[cs_last.cookie] + CSRFLifetime ) =>
        /\ cs_last.setCookie \in DOMAIN cs_issued
        /\ cs_issued[cs_last.setCookie] = cs_last.at

(***************************************************************************)
(* The whole OAuthCallback up to the user lookup.  The state check is the  *)
(* map read and the delete of OAuthStateStore.Validate; the checks that    *)
(* follow touch no shared state and are part of the step of the delete.    *)
(* A code of "" is a callback without code; provider "nope" is not         *)
(* configured; `exchange` says whether the provider accepts the code.      *)
(***************************************************************************)
OAuthCodes == {"", "c1"}

OAuthProviders == {"github", "nope"}

\* OAuthManager.GetProvider
GetProvider(name) == name = "github"

\* the answer of a callback whose state was not in the map
CallbackRejected(req) ==
    [at |-> "idle", last |-> "invalid_state", status |-> 400, req |-> req,
     inStore |-> FALSE, stateOk |-> FALSE, exchanged |-> FALSE, looked |-> FALSE]

\* OAuthCallback after `h.oauthStates.Validate(state)` has returned stateOk
CallbackChecks(req, stateOk) ==
    LET base == [at |-> "idle", req |-> req, inStore |-> TRUE, stateOk |-> stateOk]
    IN  IF ~stateOk
        THEN base @@ [last |-> "invalid_state", status |-> 400,
                      exchanged |-> FALSE, looked |-> FALSE]
        ELSE IF req.code = ""
        THEN base @@ [last |-> "missing_code", status |-> 400,
                      exchanged |-> FALSE, looked |-> FALSE]
        ELSE IF ~GetProvider(req.provider)
        THEN base @@ [last |-> "invalid_provider", status |-> 400,
                      exchanged |-> FALSE, looked |-> FALSE]
        ELSE IF ~req.exchange
        THEN base @@ [last |-> "oauth_failed", status |-> 400,
                      exchanged |-> TRUE, looked |-> FALSE]
        ELSE base @@ [last |-> "find_or_create", status |-> 307,
                      exchanged |-> TRUE, looked |-> TRUE]

\* a callback that looks at the code before the state
CallbackLookupCodeFirst ==
    \E g \in Goroutines, state \in StateValues, code \in OAuthCodes,
       provider \in OAuthProviders, exchange \in BOOLEAN :
        LET req == [state |-> state, code |-> code, provider |-> provider,
                    exchange |-> exchange]
        IN  /\ ~oa_fatal
            /\ oa_pc[g].at = "idle"
            /\ oa_pc' = [oa_pc EXCEPT ![g] =
                            IF code = ""
                            THEN [CallbackChecks(req, TRUE) EXCEPT
                                      !.inStore = state \in DOMAIN oa_states]
                            ELSE IF state \in DOMAIN oa_states
                            THEN [at |-> "found", last |-> "none", state |-> state,
                                  exp |-> oa_states[state], req |-> req]
                            ELSE CallbackRejected(req)]
            /\ UNCHANGED <<now, oa_states, oa_next, oa_true, oa_fatal, notOA>>

\* Handler.OAuthCallback: the query parameters, and the map read of Validate
CallbackLookup ==
    \E g \in Goroutines, state \in StateValues, code \in OAuthCodes,
       provider \in OAuthProviders, exchange \in BOOLEAN :
        LET req == [state |-> state, code |-> code, provider |-> provider,
                    exchange |-> exchange]
        IN  /\ ~oa_fatal
            /\ oa_pc[g].at = "idle"
            /\ oa_pc' = [oa_pc EXCEPT ![g] =
                            IF state \in DOMAIN oa_states
                            THEN [at |-> "found", last |-> "none", state |-> state,
                                  exp |-> oa_states[state], req |-> req]
                            ELSE CallbackRejected(req)]
            /\ UNCHANGED <<now, oa_states, oa_next, oa_true, oa_fatal, notOA>>

\* Handler.OAuthCallback: the delete of Validate and the checks after it
CallbackDelete ==
    \E g \in Goroutines :
        /\ ~oa_fatal
        /\ oa_pc[g].at = "found"
        /\ LET state == oa_pc[g].state
               valid == Before(now, oa_pc[g].exp)
           IN  /\ oa_states' = MapDel(oa_states, state)
               /\ oa_true' = [oa_true EXCEPT ![state] = IF valid THEN @ + 1 ELSE @]
               /\ oa_pc' = [oa_pc EXCEPT ![g] = CallbackChecks(oa_pc[g].req, valid)]
        /\ UNCHANGED <<now, oa_next, oa_fatal, notOA>>

NextCallback == OAuthStart \/ CallbackLookup \/ CallbackDelete \/ OAuthMapFault \/ Tick

SpecCallback == InitOAuth /\ [][NextCallback]_vars

\* a callback of goroutine g has been answered
Answered(g) == oa_pc[g].at = "idle" /\ oa_pc[g].last \notin {"none", "redirect"}

\* C40: an answered callback whose state was stored and valid and whose code
\* is missing, whose provider is unknown or whose exchange fails is answered
\* 400 (missing_code, invalid_provider, oauth_failed in that order) and its
\* state is out of the store; a callback whose state is not in the store, a
\* repeat with the same state included, is answered 400 invalid_state
\* without a code exchange or a user lookup.
CallbackConsumesFirst ==
    /\ [](\A g \in Goroutines :
             Answered(g) =>
                 LET a == oa_pc[g]
                 IN  /\ a.stateOk =>
                            /\ a.req.state \notin DOMAIN oa_states
                            /\ a.req.code = "" => a.last = "missing_code"
                            /\ (a.req.code # "" /\ ~GetProvider(a.req.provider)) =>
                                   a.last = "invalid_provider"
                            /\ ( /\ a.req.code # ""
                                 /\ GetProvider(a.req.provider)
                                 /\ ~a.req.exchange ) => a.last = "oauth_failed"
                     /\ a.last \in {"missing_code", "invalid_provider", "oauth_failed"} =>
                            (a.status = 400 /\ a.stateOk)
                     /\ ~a.inStore => a.last = "invalid_state"
                     /\ a.last = "invalid_state" =>
                            (a.status = 400 /\ ~a.exchanged /\ ~a.looked))
    /\ [][\A g \in Goroutines, s \in StateValues :
             ( /\ oa_pc[g].at = "idle"
               /\ oa_pc'[g] # oa_pc[g]
               /\ oa_pc'[g].last # "redirect"
               /\ oa_pc'[g].req.state = s
               /\ \E h \in Goroutines :
                      /\ Answered(h)
                      /\ oa_pc[h].req.state = s
                      /\ oa_pc[h].last \in {"missing_code", "invalid_provider",
                                            "oauth_failed"} ) =>
                 (oa_pc'[g].at = "idle" /\ oa_pc'[g].last = "invalid_state")]_vars

\* a callback without code has consumed its state, and the repeat of it by
\* the other goroutine was answered invalid_state
CallbackConsumesFirstWitness ==
    \E g, h \in Goroutines :
        /\ g # h
        /\ Answered(g)
        /\ oa_pc[g].last = "missing_code"
        /\ Answered(h)
        /\ oa_pc[h].last = "invalid_state"
        /\ oa_pc[h].req = oa_pc[g].req
        /\ ~oa_pc[h].inStore
====
